---- MODULE Spec2Model ----
(***************************************************************************)
(* The useWebSocket hook (hooks/useWebSocket.ts): the entity store it      *)
(* keeps (positions, orders, console log, notifications, system status,    *)
(* account), the reducers of handleMessage, the snapshot loaders, the     *)
(* frame dispatcher of onmessage and the connection effect; and the        *)
(* planner calculateFalciArray of the instruments view.                    *)
(*                                                                         *)
(* An optional JavaScript value is a sequence: <<>> when the field is      *)
(* absent (undefined), <<v>> when it carries v; where the code tells null  *)
(* from undefined (the system status) null is the value Null, elsewhere    *)
(* <<>> stands for both.                                                   *)
(***************************************************************************)
EXTENDS Integers, Sequences, FiniteSets, TLC

VARIABLES
    positions,      \* useState<Position[]>
    orders,         \* useState<Order[]>
    consoleLogs,    \* useState<ConsoleLog[]>
    notifications,  \* useState<Notification[]>
    systemStatus,   \* useState<SystemStatus>
    accountInfo,    \* useState<AccountInfo>
    isAuthenticated,\* useAuthStore().isAuthenticated
    apiUrl,         \* useAuthStore().apiUrl
    wsUrl,          \* useAuthStore().wsUrl
    devBuild,       \* import.meta.env.DEV of the build
    fetches,        \* the calls of fetchInitialData, oldest first; each: the mount whose
                    \* effect made it and the request it awaits ("done" when it has
                    \* returned, "caught" when a request threw and the catch block ended it)
    closures,       \* the refreshPositions / refreshOrders callbacks the renders of the
                    \* hook have returned: each with its mount and the apiUrl it captured
    refreshing,     \* refreshPositions / refreshOrders: the calls that await their response,
                    \* oldest first (each: the mount whose closure was called and, as
                    \* history, the collection when the call was made)
    mounted,        \* the component that calls the hook is mounted
    hookId,         \* which mount of the hook this is (its state cells belong to it)
    sockets,        \* every WebSocket the effect has created, in creation order
    effectSocket,   \* the socket the live effect instance closes in its cleanup (0: none)
    ws,             \* useState<WebSocket | null> (0: null)
    isConnected,    \* useState(false)
    timers,         \* the pending setTimeout callbacks, oldest first (each: its hook mount)
    app,            \* what App has rendered: nothing yet ("unrendered"), the login page
                    \* ("login"), the views around useWebSocket ("main"), or nothing any
                    \* more once React has failed a render and unmounted it ("failed")
    planner,        \* calculateFalciArray: its arguments, locals and position in the loop
    planned,        \* history: the arguments and the result of every call of
                    \* calculateFalciArray that has returned, oldest first
    last,           \* history: the operation that produced this state
    pre,            \* history: the store before that operation
    budget,         \* bound: number of operations the run may still take
    posHist,        \* history: POSITION_UPDATE payloads applied since the empty collection
    posPure,        \* history: only POSITION_UPDATE has written positions so far
    logArrivals,    \* history: every log line ever inserted, newest first
    received,       \* history: every notification ever received, newest first
    cleared,        \* history: arrival numbers of the received notifications cleared since
    nClears         \* history: number of clear operations so far

vars == <<positions, orders, consoleLogs, notifications, systemStatus, accountInfo,
          isAuthenticated, apiUrl, wsUrl, devBuild, fetches, closures, refreshing,
          mounted, hookId, sockets,
          effectSocket, ws, isConnected, timers, app, planner, planned,
          last, pre, budget, posHist, posPure, logArrivals, received, cleared,
          nClears>>

storeVars == <<positions, orders, consoleLogs, notifications, systemStatus, accountInfo>>
connVars == <<isAuthenticated, apiUrl, wsUrl, devBuild, fetches, closures, refreshing,
          mounted, hookId, sockets,
              effectSocket, ws, isConnected, timers>>
hookVars == <<storeVars, connVars>>
posGhost == <<posHist, posPure>>
logGhost == <<logArrivals>>
notifGhost == <<received, cleared, nClears>>

(***************************************************************************)
(* Bounds of the model.                                                    *)
(***************************************************************************)
MaxPosEvents == 3
MaxOrderEvents == 3
MaxLogEvents == 4
MaxNotifEvents == 4
MaxStatusEvents == 2
MaxConnEvents == 7
MaxSockets == 3
MaxSessionEvents == 5
MaxSnapEvents == 3
MaxFrameEvents == 3
MaxTeardownEvents == 5
MaxPlanCalls == 3

(***************************************************************************)
(* Program constants.                                                      *)
(***************************************************************************)
LogCap == 500
NotifCap == 50

(***************************************************************************)
(* JavaScript values.                                                      *)
(***************************************************************************)
None == <<>>
Some(v) == <<v>>
\* JSON null, where it is told from undefined.
Null == <<"null", "null">>
\* The value is neither undefined nor null.
IsSome(x) == Len(x) = 1

\* JS truthiness of an optional number: undefined, null and 0 are falsy.
TruthyNum(x) == x # None /\ x # Some(0)

\* Array.prototype.slice(0, n)
Slice0(s, n) == IF Len(s) <= n THEN s ELSE SubSeq(s, 1, n)

\* Array.prototype.findIndex by id (0 here for the code's -1; indices from 1).
RECURSIVE FindIndexFrom(_, _, _)
FindIndexFrom(s, id, i) ==
    IF i > Len(s) THEN 0
    ELSE IF s[i].id = id THEN i
    ELSE FindIndexFrom(s, id, i + 1)

FindIndexById(s, id) == FindIndexFrom(s, id, 1)

\* Array.prototype.filter((x) => x.id !== id)
FilterOutId(s, id) == SelectSeq(s, LAMBDA x : x.id # id)

Store == [positions |-> positions, orders |-> orders, consoleLogs |-> consoleLogs,
          notifications |-> notifications, systemStatus |-> systemStatus,
          accountInfo |-> accountInfo]

\* The history bookkeeping of an operation; the planner of the instruments
\* view is another component and is left alone.
Note(evt) ==
    /\ budget > 0
    /\ last' = evt
    /\ pre' = Store
    /\ budget' = budget - 1
    /\ UNCHANGED <<planner, planned, devBuild>>

\* Shared by every operation of the hook: the bookkeeping; what App has
\* rendered stays.
Record(evt) == Note(evt) /\ UNCHANGED app

(***************************************************************************)
(* Inputs: payloads and snapshot responses.                                *)
(***************************************************************************)
PosIds == {"P1", "P2"}
Epics == {"X", "Y"}
Directions == {"LONG", "SHORT"}

PositionPayloads ==
    [id : PosIds, epic : Epics, direction : Directions, contracts : {2, 3},
     openPrice : {100}, currentPrice : {None}, pnl : {Some(5)}]
    \cup
    [id : {"P2"}, epic : {"X"}, direction : {"LONG"}, contracts : {2},
     openPrice : {0}, currentPrice : {Some(99)}, pnl : {None}]

PriceQuotes == {<<101, 102>>, <<0, 102>>, <<103, 0>>}

PosA == [id |-> "P1", epic |-> "X", direction |-> "LONG", contracts |-> 2,
         openPrice |-> 100, currentPrice |-> Some(100), pnl |-> Some(5)]
PosB == [id |-> "P2", epic |-> "Y", direction |-> "SHORT", contracts |-> 3,
         openPrice |-> 100, currentPrice |-> None, pnl |-> Some(7)]

PositionLists == {<<>>, <<PosA>>, <<PosB, PosA>>}

\* A fetch outcome: the request throws (transport error), or resolves with
\* res.ok and a JSON body {success, data}; data is an array or something else.
NotArray == [isArray |-> FALSE, items |-> <<>>]
Arr(s) == [isArray |-> TRUE, items |-> s]

Responses(lists) ==
    {[throws |-> TRUE, ok |-> FALSE, success |-> FALSE, data |-> NotArray],
     [throws |-> FALSE, ok |-> FALSE, success |-> FALSE, data |-> NotArray],
     [throws |-> FALSE, ok |-> TRUE, success |-> TRUE, data |-> NotArray]}
    \cup
    [throws : {FALSE}, ok : {TRUE}, success : {TRUE}, data : {Arr(l) : l \in lists}]
    \cup
    [throws : {FALSE}, ok : {TRUE}, success : {FALSE}, data : {Arr(l) : l \in lists \ {<<>>}}]

OrderIds == {"O1", "O2"}
OrderStatuses == {"PENDING", "FILLED", "CANCELLED"}
TerminalStatuses == {"FILLED", "CANCELLED"}

OrderPayloads ==
    [id : OrderIds, epic : {"X"}, direction : {"LONG"}, contracts : {1, 2},
     status : OrderStatuses]

OrdA == [id |-> "O1", epic |-> "X", direction |-> "LONG", contracts |-> 1,
         status |-> "PENDING"]
OrdB == [id |-> "O2", epic |-> "X", direction |-> "LONG", contracts |-> 2,
         status |-> "PENDING"]
OrdFilled == [id |-> "O2", epic |-> "X", direction |-> "LONG", contracts |-> 2,
              status |-> "FILLED"]

OrderLists == {<<>>, <<OrdA>>, <<OrdB, OrdA>>, <<OrdA, OrdFilled>>}

(***************************************************************************)
(* Reducers of handleMessage: positions.                                   *)
(***************************************************************************)
\* A faulty upsert: always appends.
UpsertAppendOnly(prev, data) == Append(prev, data)

\* A faulty upsert: replaces, but moves the entry to the end.
UpsertMoveToEnd(prev, data) == Append(FilterOutId(prev, data.id), data)

\* setPositions / setOrders updater: replace in place or append.
Upsert(prev, data) ==
    LET existing == FindIndexById(prev, data.id)
    IN  IF existing > 0 THEN [prev EXCEPT ![existing] = data]
        ELSE Append(prev, data)

PositionUpdate(prev, data) == Upsert(prev, data)

\* A faulty price reducer: recomputes pnl from the price.
MarketPriceRecomputesPnl(prev, epic, bid, offer) ==
    [i \in DOMAIN prev |->
        IF prev[i].epic = epic
        THEN [prev[i] EXCEPT !.currentPrice = Some(bid),
                             !.pnl = Some((bid - prev[i].openPrice) * prev[i].contracts)]
        ELSE prev[i]]

\* setPositions updater of MARKET_PRICE_UPDATE.
MarketPriceUpdate(prev, epic, bid, offer) ==
    LET priceFor(pos) == IF pos.direction = "LONG" THEN Some(bid) ELSE Some(offer)
        hit(pos) == /\ pos.epic = epic
                    /\ TruthyNum(priceFor(pos))
                    /\ TruthyNum(Some(pos.openPrice))
        newPositions == [i \in DOMAIN prev |->
                            IF hit(prev[i])
                            THEN [prev[i] EXCEPT !.currentPrice = priceFor(prev[i])]
                            ELSE prev[i]]
        updated == \E i \in DOMAIN prev : hit(prev[i])
    IN  IF updated THEN newPositions ELSE prev

(***************************************************************************)
(* Reducers of handleMessage: orders.                                      *)
(***************************************************************************)
\* A faulty order reducer: only CANCELLED removes.
OrderUpdateCancelledOnly(prev, data) ==
    IF data.status = "CANCELLED" THEN FilterOutId(prev, data.id)
    ELSE Upsert(prev, data)

\* setOrders updater of ORDER_UPDATE.
OrderUpdate(prev, data) ==
    IF data.status = "CANCELLED" \/ data.status = "FILLED"
    THEN FilterOutId(prev, data.id)
    ELSE Upsert(prev, data)

(***************************************************************************)
(* Snapshot loaders.                                                       *)
(***************************************************************************)
\* refreshPositions / refreshOrders: the value returned.
RefreshSucceeds(r) == ~r.throws /\ r.ok /\ r.success /\ r.data.isArray

\* A faulty refresh: an empty list does not replace the collection.
RefreshKeepsWhenEmpty(prev, r) ==
    IF RefreshSucceeds(r) /\ Len(r.data.items) > 0 THEN r.data.items ELSE prev

\* refreshPositions / refreshOrders: the collection after the call.
RefreshResult(prev, r) == IF RefreshSucceeds(r) THEN r.data.items ELSE prev

\* fetchInitialData, positions and orders steps: `response.data || response`
\* is the array when the body carries one; it is stored when non-empty.
InitialLoadResult(prev, r) ==
    IF ~r.throws /\ r.ok /\ r.data.isArray /\ Len(r.data.items) > 0
    THEN r.data.items
    ELSE prev

\* `x || 0` on an optional number
OrZero(x) == IF TruthyNum(x) THEN x[1] ELSE 0

\* fetchInitialData, account step: the value setAccountInfo receives.
AccountFromSnapshot(d) ==
    [balance |-> OrZero(d.available), equity |-> OrZero(d.balance), margin |-> OrZero(d.margin),
     available |-> OrZero(d.available), pnl |-> OrZero(d.pnl)]

\* fetchInitialData, account step: stored when res.ok and `success && data`.
InitialAccountResult(prev, r) ==
    IF ~r.throws /\ r.ok /\ r.success /\ r.data # None
    THEN AccountFromSnapshot(r.data[1])
    ELSE prev

\* The data objects /api/account can answer with.
AccountSnapshots ==
    {[balance |-> Some(1000), available |-> Some(950), margin |-> Some(50), pnl |-> Some(10)],
     [balance |-> Some(2000), available |-> Some(2000), margin |-> Some(0), pnl |-> None]}

\* The outcomes of the account request: it throws, or resolves with res.ok
\* and a JSON body {success, data}.
AccountResponses ==
    {[throws |-> TRUE, ok |-> FALSE, success |-> FALSE, data |-> None],
     [throws |-> FALSE, ok |-> FALSE, success |-> FALSE, data |-> None],
     [throws |-> FALSE, ok |-> TRUE, success |-> TRUE, data |-> None]}
    \cup
    [throws : {FALSE}, ok : {TRUE}, success : BOOLEAN, data : {Some(d) : d \in AccountSnapshots}]

(***************************************************************************)
(* JavaScript numbers. A number of the planner is an IEEE 754 double:      *)
(* [k |-> "fin", neg, m, e] is the value m * 2^e (negated when neg), m a   *)
(* natural number of exactly 53 bits, or no bits for zero; "inf" and "nan" *)
(* are Infinity and NaN. Every operation gives the double nearest to the   *)
(* exact result, ties to the even mantissa. The exponents of the planner's *)
(* quantities stay far from the ends of the format's range, which is not   *)
(* modelled. A natural number is the sequence of its digits in base 2^14,  *)
(* lowest first, without leading zeros.                                    *)
(***************************************************************************)
\* The bits of a mantissa, and of a digit: 4 digits hold a mantissa, and the
\* sum of 4 products of two digits stays below 2^31.
Precision == 53
LimbBits == (Precision + 3) \div 4
LimbBase == 2^LimbBits

\* The element of a set of one element: in Only({e : x \in {d}}) the name x
\* stands, in e, for the value of d, which is computed once, before e.
Only(S) == CHOOSE v \in S : TRUE

\* digit i of n, 0 where n has no digit
NatLimb(n, i) == IF i >= 1 /\ i <= Len(n) THEN n[i] ELSE 0

\* n without its leading zero digits
NatTrim(n) ==
    SubSeq(n, 1, CHOOSE len \in 0..Len(n) :
                     /\ len = 0 \/ n[len] # 0
                     /\ \A i \in (len + 1)..Len(n) : n[i] = 0)

\* the digits of i, for 0 <= i < 2^31, and the value of n, for n < 2^31
NatOf(i) ==
    NatTrim(<<i % LimbBase, (i \div LimbBase) % LimbBase, i \div (LimbBase * LimbBase)>>)
NatValue(n) == NatLimb(n, 1) + LimbBase * NatLimb(n, 2) + LimbBase * LimbBase * NatLimb(n, 3)

\* The digits of the number that is the sum of c[i] * LimbBase^(i-1), each
\* c[i] being below LimbBase^2. In t the part of c[i] above a digit is moved
\* to the next place, which leaves at most 1 to carry from a place: a place
\* carries when it holds LimbBase or more, and hands on a carry it receives
\* when it holds LimbBase - 1.
Carry(c) ==
    LET n == Len(c) + 2
        t == SubSeq([k \in 1..n |-> (NatLimb(c, k) % LimbBase) + (NatLimb(c, k - 1) \div LimbBase)],
                    1, n)
    IN  NatTrim([k \in 1..n |->
                    (t[k] + IF \E j \in 1..(k - 1) :
                                   /\ t[j] >= LimbBase
                                   /\ \A i \in (j + 1)..(k - 1) : t[i] = LimbBase - 1
                            THEN 1 ELSE 0) % LimbBase])

NatAdd(a, b) ==
    IF a = <<>> THEN b
    ELSE IF b = <<>> THEN a
    ELSE Carry([k \in 1..(IF Len(a) > Len(b) THEN Len(a) ELSE Len(b)) |->
                   NatLimb(a, k) + NatLimb(b, k)])

\* a - b for a >= b: a place borrows when its digit of b is the greater one,
\* and hands on a borrow when the two digits are equal
NatSub(a, b) ==
    IF b = <<>> THEN a
    ELSE
    LET d == SubSeq([k \in 1..Len(a) |-> a[k] - NatLimb(b, k)], 1, Len(a))
    IN  NatTrim([k \in 1..Len(a) |->
                    (d[k] + LimbBase - IF \E j \in 1..(k - 1) :
                                              /\ d[j] < 0
                                              /\ \A i \in (j + 1)..(k - 1) : d[i] = 0
                                       THEN 1 ELSE 0) % LimbBase])

\* -1, 0 or 1 as a is below, equal to or above b
NatCmp(a, b) ==
    IF Len(a) # Len(b) THEN IF Len(a) < Len(b) THEN -1 ELSE 1
    ELSE IF a = b THEN 0
    ELSE IF \E k \in 1..Len(a) : a[k] < b[k] /\ \A i \in (k + 1)..Len(a) : a[i] = b[i]
    THEN -1 ELSE 1

\* a * d for a digit d
NatMulLimb(a, d) == IF a = <<>> \/ d = 0 THEN <<>> ELSE Carry([k \in 1..Len(a) |-> a[k] * d])

\* n * 2^s
NatShl(n, s) ==
    IF n = <<>> THEN <<>>
    ELSE [k \in 1..(s \div LimbBits) |-> 0]
         \o NatTrim([k \in 1..(Len(n) + 1) |->
                        ((NatLimb(n, k) * 2^(s % LimbBits)) % LimbBase)
                        + (NatLimb(n, k - 1) \div 2^(LimbBits - (s % LimbBits)))])

\* a * b for a of at most 4 digits, which 53 bits are: c[k] is the sum of the
\* products of the digits that meet at place k, below 2^30, and is spread over
\* three places before the carries
NatMul(a, b) ==
    IF a = <<>> \/ b = <<>> THEN <<>>
    ELSE
    LET n == Len(a) + Len(b)
        c == SubSeq([k \in 1..n |-> NatLimb(a, 1) * NatLimb(b, k)
                                    + NatLimb(a, 2) * NatLimb(b, k - 1)
                                    + NatLimb(a, 3) * NatLimb(b, k - 2)
                                    + NatLimb(a, 4) * NatLimb(b, k - 3)], 1, n)
    IN  Carry([k \in 1..(n + 2) |-> (NatLimb(c, k) % LimbBase)
                                    + ((NatLimb(c, k - 1) \div LimbBase) % LimbBase)
                                    + (NatLimb(c, k - 2) \div (LimbBase * LimbBase))])

\* the integer part of n / 2^s
NatShr(n, s) ==
    IF n = <<>> THEN <<>>
    ELSE
    NatTrim([k \in 1..(Len(n) - (s \div LimbBits)) |->
                (n[k + (s \div LimbBits)] \div 2^(s % LimbBits))
                + (NatLimb(n, k + (s \div LimbBits) + 1) % 2^(s % LimbBits))
                  * 2^(LimbBits - (s % LimbBits))])

\* the number of bits of a digit x >= 1, and of a natural number
LimbBitLen(x) == CHOOSE k \in 1..LimbBits : 2^(k - 1) <= x /\ x < 2^k
NatBitLen(n) == IF n = <<>> THEN 0 ELSE LimbBits * (Len(n) - 1) + LimbBitLen(n[Len(n)])

\* bit i of n (bit 0 is the lowest), and whether the s lowest bits are all 0
NatBit(n, i) == (NatLimb(n, (i \div LimbBits) + 1) \div 2^(i % LimbBits)) % 2
NatLowZero(n, s) ==
    /\ \A i \in 1..(s \div LimbBits) : NatLimb(n, i) = 0
    /\ NatLimb(n, (s \div LimbBits) + 1) % 2^(s % LimbBits) = 0

\* The greatest digit q with q * d <= r, for r < d * LimbBase and a divisor d
\* whose top digit is at least LimbBase / 2: the estimate from the top digits
\* is never too small, and at most 2 too great.
NatDigit(r, d) ==
    IF Len(r) < Len(d) THEN 0
    ELSE LET est == (IF Len(r) > Len(d) THEN r[Len(r)] * LimbBase + r[Len(r) - 1]
                     ELSE r[Len(r)]) \div d[Len(d)]
             top == IF est >= LimbBase THEN LimbBase - 1 ELSE est
             fit == {q \in (IF top >= 2 THEN top - 2 ELSE 0)..top :
                        NatCmp(NatMulLimb(d, q), r) <= 0}
         IN  CHOOSE q \in fit : \A p \in fit : p <= q

\* One step of the long division of a by d, st holding the place i of the
\* digit to find, what is left of the places above, r, and the digits found, q.
NatDivStep(a, d, st) ==
    LET r1 == NatTrim(<<a[st.i]>> \o st.r)
        digit == NatDigit(r1, d)
    IN  [q |-> <<digit>> \o st.q, r |-> NatSub(r1, NatMulLimb(d, digit)), i |-> st.i - 1]

\* long division, digit by digit down to the lowest place
RECURSIVE NatDivFrom(_, _, _)
NatDivFrom(a, d, st) == IF st.i = 0 THEN st ELSE NatDivFrom(a, d, NatDivStep(a, d, st))

\* The integer part q of x / y for y > 0, and whether the division is exact.
\* Both are shifted to bring the top digit of the divisor to LimbBase / 2 or
\* more, and the division starts below the top digits that are less than the
\* divisor, their digits of the quotient being 0.
NatDivide(x, y) ==
    LET sh == LimbBits - LimbBitLen(y[Len(y)])
        num == NatShl(x, sh)
        d == NatShl(y, sh)
        skip == IF Len(num) < Len(d) THEN Len(num)
                ELSE IF NatCmp(SubSeq(num, Len(num) - Len(d) + 1, Len(num)), d) < 0 THEN Len(d)
                ELSE Len(d) - 1
        res == NatDivFrom(num, d, [q |-> <<>>, r |-> SubSeq(num, Len(num) - skip + 1, Len(num)),
                                   i |-> Len(num) - skip])
    IN  [q |-> NatTrim(res.q), exact |-> res.r = <<>>]

DZero(neg) == [k |-> "fin", neg |-> neg, m |-> <<>>, e |-> 0]
DInfinity(neg) == [k |-> "inf", neg |-> neg, m |-> <<>>, e |-> 0]
DNaN == [k |-> "nan", neg |-> FALSE, m |-> <<>>, e |-> 0]
DIsZero(x) == x.k = "fin" /\ x.m = <<>>

\* n rounded to 53 bits, n having s more: the nearest, ties to even, a value
\* strictly between n and n + 1 being meant when inexact; times 2^e.
RoundBits(neg, n, e, inexact, s) ==
    LET q == NatShr(n, s)
        r == IF /\ NatBit(n, s - 1) = 1
                /\ (inexact \/ ~NatLowZero(n, s - 1) \/ NatBit(q, 0) = 1)
             THEN NatAdd(q, <<1>>) ELSE q
    IN  IF NatBitLen(r) > Precision
        THEN [k |-> "fin", neg |-> neg, m |-> NatShr(r, 1), e |-> e + s + 1]
        ELSE [k |-> "fin", neg |-> neg, m |-> r, e |-> e + s]

\* The double nearest to n * 2^e, or to a value strictly between n * 2^e and
\* (n + 1) * 2^e when inexact (then n has more than 53 bits); ties to even.
RoundToDouble(neg, n, e, inexact) ==
    IF n = <<>> THEN DZero(neg)
    ELSE IF NatBitLen(n) <= Precision
    THEN [k |-> "fin", neg |-> neg, m |-> NatShl(n, Precision - NatBitLen(n)),
          e |-> e - (Precision - NatBitLen(n))]
    ELSE RoundBits(neg, n, e, inexact, NatBitLen(n) - Precision)

\* the double of an integer
DInt(i) == RoundToDouble(i < 0, NatOf(IF i < 0 THEN -i ELSE i), 0, FALSE)

DNeg(x) == IF x.k = "nan" THEN x ELSE [x EXCEPT !.neg = ~@]

\* x * y
DMul(x, y) ==
    IF x.k = "fin" /\ y.k = "fin"
    THEN RoundToDouble(x.neg # y.neg, NatMul(x.m, y.m), x.e + y.e, FALSE)
    ELSE IF x.k = "nan" \/ y.k = "nan" \/ DIsZero(x) \/ DIsZero(y) THEN DNaN
    ELSE DInfinity(x.neg # y.neg)

\* the quotient of the 53 bits of x, with 55 bits more below them, by those of y
DDivFinite(x, y) ==
    LET d == NatDivide(NatShl(x.m, Precision + 2), y.m)
    IN  RoundToDouble(x.neg # y.neg, d.q, x.e - y.e - (Precision + 2), ~d.exact)

\* x / y
DDiv(x, y) ==
    IF x.k = "fin" /\ y.k = "fin" /\ x.m # <<>> /\ y.m # <<>> THEN DDivFinite(x, y)
    ELSE IF x.k = "nan" \/ y.k = "nan" THEN DNaN
    ELSE IF x.k = "inf" THEN IF y.k = "inf" THEN DNaN ELSE DInfinity(x.neg # y.neg)
    ELSE IF y.k = "inf" THEN DZero(x.neg # y.neg)
    ELSE IF DIsZero(y) THEN IF DIsZero(x) THEN DNaN ELSE DInfinity(x.neg # y.neg)
    ELSE DZero(x.neg # y.neg)

\* x + y for finite x and y other than 0, e being the lesser exponent
DAddFinite(x, y, e) ==
    LET mx == NatShl(x.m, x.e - e)
        my == NatShl(y.m, y.e - e)
    IN  IF x.neg = y.neg THEN RoundToDouble(x.neg, NatAdd(mx, my), e, FALSE)
        ELSE IF NatCmp(mx, my) = 0 THEN DZero(FALSE)
        ELSE IF NatCmp(mx, my) > 0 THEN RoundToDouble(x.neg, NatSub(mx, my), e, FALSE)
        ELSE RoundToDouble(y.neg, NatSub(my, mx), e, FALSE)

\* x + y
DAdd(x, y) ==
    IF x.k = "fin" /\ y.k = "fin" /\ x.m # <<>> /\ y.m # <<>>
    THEN DAddFinite(x, y, IF x.e < y.e THEN x.e ELSE y.e)
    ELSE IF x.k = "nan" \/ y.k = "nan" THEN DNaN
    ELSE IF x.k = "inf" THEN IF y.k = "inf" /\ x.neg # y.neg THEN DNaN ELSE x
    ELSE IF y.k = "inf" THEN y
    ELSE IF DIsZero(x) THEN IF DIsZero(y) THEN DZero(x.neg /\ y.neg) ELSE y
    ELSE x

\* x - y
DSub(x, y) == DAdd(x, DNeg(y))

\* |x| < |y|, neither being NaN
DMagLess(x, y) ==
    IF x.k = "inf" \/ DIsZero(y) THEN FALSE
    ELSE IF y.k = "inf" \/ DIsZero(x) THEN TRUE
    ELSE x.e < y.e \/ (x.e = y.e /\ NatCmp(x.m, y.m) < 0)

\* x < y
DLess(x, y) ==
    IF x.k = "nan" \/ y.k = "nan" THEN FALSE
    ELSE IF DIsZero(x) /\ DIsZero(y) THEN FALSE
    ELSE IF x.neg # y.neg THEN x.neg
    ELSE IF x.neg THEN DMagLess(y, x) ELSE DMagLess(x, y)

\* the integer part of m * 2^e, and whether m * 2^e is an integer
NatFloor(m, e) == IF e >= 0 THEN NatValue(NatShl(m, e)) ELSE NatValue(NatShr(m, -e))
NatWhole(m, e) == e >= 0 \/ NatLowZero(m, -e)

\* Math.floor(x) of a finite x, as an integer
MathFloor(x) ==
    IF ~x.neg THEN NatFloor(x.m, x.e)
    ELSE -(NatFloor(x.m, x.e) + IF NatWhole(x.m, x.e) THEN 0 ELSE 1)

\* twice x + 1 halved and floored, twice and one being 2|x| and 1 in units of
\* 2^(x.e - 1)
MathRoundHalves(x, twice, one) ==
    IF ~x.neg THEN NatFloor(NatAdd(twice, one), x.e - 1)
    ELSE IF NatCmp(twice, one) <= 0 THEN 0
    ELSE -(NatFloor(NatSub(twice, one), x.e - 1)
               + IF NatWhole(NatSub(twice, one), x.e - 1) THEN 0 ELSE 1)

\* Math.round(x) of a finite x, as an integer: the integer nearest to x, the
\* greater one of two equally near (-0 is 0 here).
MathRound(x) ==
    IF x.e >= 0 THEN IF x.neg THEN -NatFloor(x.m, x.e) ELSE NatFloor(x.m, x.e)
    ELSE MathRoundHalves(x, NatShl(x.m, 1), NatShl(<<1>>, -x.e))

(***************************************************************************)
(* The planner: calculateFalciArray (InstrumentsView).                     *)
(* The arguments and the state of a call are integers: tpPoints and        *)
(* orderDistanceDivisor are whole numbers, harvestPct is the slider's      *)
(* harvestPercentage (the call divides it by 100), and a contract quantity *)
(* q counts hundredths: it stands for the double nearest to q / 100, which *)
(* is what the code holds for the number written with two decimals, and    *)
(* for the result of Math.round(..) / 10 and Math.floor(..) / 10. The      *)
(* arithmetic of the code is done on the doubles.                          *)
(***************************************************************************)
StepCap == 20
MinStep == 10
LoopThreshold == 5

\* the double of a quantity of q hundredths
Hundredths(q) == DDiv(DInt(q), DInt(100))

\* harvestPctDecimal = configParams.harvestPercentage / 100
HarvestPctDecimal(a) == DDiv(DInt(a.harvestPct), DInt(100))

\* banda = tpPoints / orderDistanceDivisor
Banda(a) == DDiv(DInt(a.tpPoints), DInt(a.orderDistanceDivisor))

\* profit = contracts * tpPoints
Profit(a) == DMul(Hundredths(a.contracts), DInt(a.tpPoints))

\* reinv = profit * harvestPct
Reinv(a) == DMul(Profit(a), HarvestPctDecimal(a))

\* loss = ((tpPoints * n) + banda) * ct
Loss(a, ct, n) == DMul(DAdd(DMul(DInt(a.tpPoints), DInt(n)), Banda(a)), Hundredths(ct))

\* if (reinv < loss)
ReinvBelowLoss(reinv, loss) == DLess(reinv, loss)

\* flp = Math.floor((reinv * 100) / loss)
Flp(reinv, loss) == MathFloor(DDiv(DMul(reinv, DInt(100)), loss))

\* falcioContractsRaw = (ct * flp) / 100, ct being the double
FalcioContractsRaw(ct, flp) == DDiv(DMul(ct, DInt(flp)), DInt(100))

\* rounded = Math.floor(falcioContractsRaw * 10) / 10, in hundredths
FalcioRounded(falcioContractsRaw) == 10 * MathFloor(DMul(falcioContractsRaw, DInt(10)))

\* The step of a pass with reinv < loss before the test for the forced
\* minimum: rounded, from flp and falcioContractsRaw.
RoundedStep(reinv, loss, ct) ==
    Only({Only({FalcioRounded(falcioContractsRaw) :
                    falcioContractsRaw \in {FalcioContractsRaw(c, flp)}}) :
              flp \in {Flp(reinv, loss)}, c \in {Hundredths(ct)}})

\* Math.round((ct - step) * 10) / 10, in hundredths, for a step in hundredths
RemainingAfter(ct, step) ==
    Only({10 * MathRound(DMul(DSub(c, less), DInt(10))) :
              c \in {Hundredths(ct)}, less \in {Hundredths(step)}})

\* Math.round(ct * 10) / 10, in hundredths
RoundTenth(ct) == 10 * MathRound(DMul(Hundredths(ct), DInt(10)))

\* The body of the while loop up to the `n > 20` test.
HarvestStep(a, s) ==
    Only({IF ReinvBelowLoss(reinv, loss)
          THEN Only({IF rounded <= 0 /\ s.ct > LoopThreshold
                     THEN [s EXCEPT !.falci = Append(@, MinStep),
                                    !.ct = RemainingAfter(s.ct, MinStep),
                                    !.n = @ + 1]
                     ELSE IF rounded > 0
                     THEN [s EXCEPT !.falci = Append(@, rounded),
                                    !.ct = RemainingAfter(s.ct, rounded),
                                    !.n = @ + 1]
                     ELSE [s EXCEPT !.pc = "returned"] :
                         rounded \in {RoundedStep(reinv, loss, s.ct)}})
          ELSE Only({[s EXCEPT !.falci = IF rounded > 0 THEN Append(@, rounded) ELSE @,
                               !.ct = 0] :
                         rounded \in {RoundTenth(s.ct)}}) :
              reinv \in {Reinv(a)}, loss \in {Loss(a, s.ct, s.n)}})

\* A faulty cap: stops at the cap without emitting what remains.
StepCapDropsRemainder(s) ==
    IF s.pc # "returned" /\ s.n > StepCap THEN [s EXCEPT !.pc = "returned"] ELSE s

\* if (n > 20) { if (ct > 0) falci.push(Math.round(ct * 10) / 10); break }
StepCapCheck(s) ==
    IF s.pc # "returned" /\ s.n > StepCap
    THEN [s EXCEPT !.falci = IF s.ct > 0 THEN Append(@, RoundTenth(s.ct)) ELSE @,
                   !.pc = "returned"]
    ELSE s

\* One test of `while (ct > 0.05)` and, when it passes, one pass of the body.
PlanIteration(a, s) ==
    IF s.ct > LoopThreshold
    THEN StepCapCheck(HarvestStep(a, s))
    ELSE [s EXCEPT !.pc = "returned"]

\* A faulty entry: the array of the call before is used again.
PlanStartKeepsFalci(a) ==
    [pc |-> "loop", args |-> a, falci |-> planner.falci, ct |-> a.contracts, n |-> 1]

\* The locals at loop entry: falci = [], ct = contracts, n = 1.
PlanStart(a) == [pc |-> "loop", args |-> a, falci |-> <<>>, ct |-> a.contracts, n |-> 1]

RECURSIVE PlanRun(_, _)
PlanRun(a, s) == IF s.pc = "returned" THEN s.falci ELSE PlanRun(a, PlanIteration(a, s))

\* calculateFalciArray(contracts, tpPoints, orderDistanceDivisor, harvestPct)
CalculateFalciArray(contracts, tpPoints, orderDistanceDivisor, harvestPct) ==
    LET a == [contracts |-> contracts, tpPoints |-> tpPoints,
              orderDistanceDivisor |-> orderDistanceDivisor, harvestPct |-> harvestPct]
    IN  PlanRun(a, PlanStart(a))

\* Valid arguments, as a grid (a part of what the view can pass, not all of
\* it): contract quantities with and without a hundredths part (the form
\* gives whole contracts, an instrument's configuration any quantity), two
\* numbers of target points, the band divisors of the form's range 1..5 and
\* harvest percentages of the slider's range. On six of them a double of the
\* code lies on the other side of a whole number than the exact quantity:
\* (1, 90, 2, 0.70), (1, 90, 3, 0.70), (2, 90, 1, 0.70), (2, 90, 3, 0.70),
\* (3, 10, 1, 0.48) and (3, 10, 5, 0.48).
PlanInputs ==
    [contracts : {7, 50, 100, 123, 200, 300, 1000}, tpPoints : {10, 90},
     orderDistanceDivisor : 1..5, harvestPct : {1, 33, 48, 50, 67, 70, 90, 100}]

\* The arguments of the calls that are repeated: those of the reference
\* plan, the view's defaults with the harvest at 70, and a quantity with a
\* hundredths part.
RepeatedInputs ==
    {[contracts |-> 100, tpPoints |-> 10, orderDistanceDivisor |-> 2, harvestPct |-> 50],
     [contracts |-> 100, tpPoints |-> 90, orderDistanceDivisor |-> 3, harvestPct |-> 70],
     [contracts |-> 123, tpPoints |-> 10, orderDistanceDivisor |-> 2, harvestPct |-> 100]}

\* Arguments outside the planner's domain: no contracts or a negative count,
\* or tpPoints, orderDistanceDivisor or harvestPct of 0.
DegenerateInputs ==
    {a \in [contracts : {-100, 0, 100, 300}, tpPoints : {0, 10},
             orderDistanceDivisor : {0, 2}, harvestPct : {0, 50}] :
        \/ a.contracts <= 0
        \/ a.tpPoints = 0
        \/ a.orderDistanceDivisor = 0
        \/ a.harvestPct = 0}

\* The planner before the view has called it.
PlannerIdle ==
    [pc |-> "idle",
     args |-> [contracts |-> 0, tpPoints |-> 0, orderDistanceDivisor |-> 0, harvestPct |-> 0],
     falci |-> <<>>, ct |-> 0, n |-> 1]

\* previewFalciArray: the view calls calculateFalciArray with its form values.
PlanCall ==
    /\ planner.pc = "idle"
    /\ \E a \in PlanInputs : planner' = PlanStart(a)
    /\ UNCHANGED <<hookVars, app, planned, last, pre, budget, posGhost, logGhost, notifGhost>>

\* previewFalciArray with form values that are zero or negative.
PlanCallDegenerate ==
    /\ planner.pc = "idle"
    /\ \E a \in DegenerateInputs : planner' = PlanStart(a)
    /\ UNCHANGED <<hookVars, app, planned, last, pre, budget, posGhost, logGhost, notifGhost>>

\* previewFalciArray is computed again, after a form value changed or the
\* view was mounted again: a new call of calculateFalciArray, whatever the
\* calls before it were.
PlanCallAgain ==
    /\ planner.pc \in {"idle", "returned"}
    /\ Len(planned) < MaxPlanCalls
    /\ \E a \in RepeatedInputs : planner' = PlanStart(a)
    /\ UNCHANGED <<hookVars, app, planned, last, pre, budget, posGhost, logGhost, notifGhost>>

\* calculateFalciArray: the loop test and one pass of the loop; `return falci`
\* when the loop has ended.
PlanLoop ==
    /\ planner.pc = "loop"
    /\ planner' = PlanIteration(planner.args, planner)
    /\ planned' = IF planner'.pc = "returned"
                  THEN Append(planned, [args |-> planner.args, falci |-> planner'.falci])
                  ELSE planned
    /\ UNCHANGED <<hookVars, app, last, pre, budget, posGhost, logGhost, notifGhost>>

(***************************************************************************)
(* Initial states.                                                         *)
(***************************************************************************)
InitialSystemStatus ==
    [status |-> "STOPPED", igConnected |-> Some(FALSE), lightstreamerConnected |-> Some(FALSE),
     sessionAge |-> None, uptime |-> None, lastUpdateAt |-> Null,
     secondsSinceUpdate |-> Null]

InitialAccountInfo == [balance |-> 0, equity |-> 0, margin |-> 0, available |-> 0, pnl |-> 0]

\* The state of the hook's useState cells at construction, with the log and the
\* notification list given (empty at construction); n bounds the run.
InitStore(logs, notifs, n) ==
    /\ positions = <<>>
    /\ orders = <<>>
    /\ consoleLogs = logs
    /\ notifications = notifs
    /\ systemStatus = InitialSystemStatus
    /\ accountInfo = InitialAccountInfo
    /\ last = [type |-> "INIT"]
    /\ pre = [positions |-> <<>>, orders |-> <<>>, consoleLogs |-> logs,
              notifications |-> notifs, systemStatus |-> InitialSystemStatus,
              accountInfo |-> InitialAccountInfo]
    /\ budget = n
    /\ planner = PlannerIdle
    /\ planned = <<>>
    /\ posHist = <<>>
    /\ posPure = TRUE
    /\ logArrivals = logs
    /\ received = notifs
    /\ cleared = {}
    /\ nClears = 0

\* No refreshPositions / refreshOrders call is awaiting its response.
\* A sequence without its element at index c.
WithoutIndex(q, c) == SubSeq(q, 1, c - 1) \o SubSeq(q, c + 1, Len(q))

NoRefresh == [positions |-> <<>>, orders |-> <<>>]

\* An authenticated session whose channel is open: the hook has mounted, the
\* effect has created its WebSocket and onopen has run. fetchInitialData awaits
\* the request named by pc (the earlier ones resolved with a non-OK response).
InitConnected(pc) ==
    /\ isAuthenticated = TRUE
    /\ devBuild = FALSE
    /\ app = "main"
    /\ apiUrl = "http://a"
    /\ wsUrl = "ws://a"
    /\ fetches = <<[pc |-> pc, owner |-> 1]>>
    /\ closures = {[owner |-> 1, apiUrl |-> "http://a"]}
    /\ refreshing = NoRefresh
    /\ mounted = TRUE
    /\ hookId = 1
    /\ sockets = <<[url |-> "ws://a", readyState |-> "OPEN", owner |-> 1]>>
    /\ effectSocket = 1
    /\ ws = 1
    /\ isConnected = TRUE
    /\ timers = <<>>

\* A frame can be delivered to onmessage while some socket is open.
\* A faulty liveness test: the writes of a mount that is gone are kept.
OwnerLiveAlways(o) == TRUE

\* The handlers of socket i and the timer callbacks they schedule write the
\* state cells of the hook mount that created the socket; React drops the
\* writes once that mount is gone.
OwnerLive(o) == mounted /\ o = hookId

\* getWsUrl / getApiUrl of a backend: a development build points every
\* backend at the same local server, a production build at its own path.
WsUrlOf(b) == IF devBuild THEN "ws://localhost:3002" ELSE IF b = "a" THEN "ws://a" ELSE "ws://b"
ApiUrlOf(b) ==
    IF devBuild THEN "http://localhost:3001" ELSE IF b = "a" THEN "http://a" ELSE "http://b"

\* The place of the call of fetchInitialData made last ("done" before any call).
fetchPc == IF fetches = <<>> THEN "done" ELSE fetches[Len(fetches)].pc

Receiving == \E i \in DOMAIN sockets : sockets[i].readyState = "OPEN"

(***************************************************************************)
(* Operations on positions.                                                *)
(***************************************************************************)
\* handleMessage, case POSITION_UPDATE
OnPositionUpdate ==
    /\ Receiving
    /\ \E d \in PositionPayloads :
        /\ positions' = PositionUpdate(positions, d)
        /\ Record([type |-> "POSITION_UPDATE", data |-> d])
        /\ posHist' = Append(posHist, d)
    /\ UNCHANGED <<orders, consoleLogs, notifications, systemStatus, accountInfo>>
    /\ UNCHANGED <<connVars, posPure, logGhost, notifGhost>>

\* handleMessage, case MARKET_PRICE_UPDATE
OnMarketPriceUpdate ==
    /\ Receiving
    /\ \E e \in Epics, q \in PriceQuotes :
        /\ positions' = MarketPriceUpdate(positions, e, q[1], q[2])
        /\ Record([type |-> "MARKET_PRICE_UPDATE",
                   data |-> [epic |-> e, bid |-> q[1], offer |-> q[2]]])
    /\ posPure' = FALSE
    /\ UNCHANGED <<orders, consoleLogs, notifications, systemStatus, accountInfo>>
    /\ UNCHANGED <<connVars, posHist, logGhost, notifGhost>>

\* refreshPositions is called, through the callback of any render so far: it
\* returns false at once when that render had no API URL, and otherwise issues
\* its request and awaits the response, next to the calls already waiting.
CallRefreshPositions ==
    /\ \E cl \in closures :
        IF cl.apiUrl = ""
        THEN /\ refreshing' = refreshing
             /\ Record([type |-> "callRefreshPositions", returned |-> Some(FALSE)])
        ELSE /\ refreshing' = [refreshing EXCEPT
                                   !.positions = Append(@, [atCall |-> positions,
                                                            owner |-> cl.owner])]
             /\ Record([type |-> "callRefreshPositions", returned |-> None])
    /\ UNCHANGED storeVars
    /\ UNCHANGED <<isAuthenticated, apiUrl, wsUrl, fetches, closures, mounted, hookId, sockets,
                   effectSocket, ws, isConnected, timers>>
    /\ UNCHANGED <<posGhost, logGhost, notifGhost>>

\* refreshPositions: the request of one of the waiting calls resolves (or
\* throws) and the callback returns.
RefreshPositions ==
    /\ \E c \in DOMAIN refreshing.positions, r \in Responses(PositionLists) :
        /\ positions' = IF OwnerLive(refreshing.positions[c].owner)
                        THEN RefreshResult(positions, r) ELSE positions
        /\ Record([type |-> "refreshPositions", data |-> r, returned |-> RefreshSucceeds(r),
                   atCall |-> refreshing.positions[c].atCall])
        /\ refreshing' = [refreshing EXCEPT !.positions = WithoutIndex(@, c)]
    /\ posPure' = FALSE
    /\ UNCHANGED <<orders, consoleLogs, notifications, systemStatus, accountInfo>>
    /\ UNCHANGED <<isAuthenticated, apiUrl, wsUrl, fetches, closures, mounted, hookId, sockets,
                   effectSocket, ws, isConnected, timers>>
    /\ UNCHANGED <<posHist, logGhost, notifGhost>>

\* fetchInitialData: the positions request resolves (or throws).
FetchInitialPositions ==
    /\ \E c \in DOMAIN fetches, r \in Responses(PositionLists) :
        /\ fetches[c].pc = "positions"
        /\ positions' = IF OwnerLive(fetches[c].owner)
                        THEN InitialLoadResult(positions, r) ELSE positions
        /\ fetches' = [fetches EXCEPT ![c].pc = IF r.throws THEN "caught" ELSE "orders"]
        /\ Record([type |-> "fetchInitialPositions", data |-> r, call |-> c])
    /\ posPure' = FALSE
    /\ UNCHANGED <<orders, consoleLogs, notifications, systemStatus, accountInfo>>
    /\ UNCHANGED <<isAuthenticated, apiUrl, wsUrl, closures, refreshing, mounted, hookId, sockets,
                   effectSocket, ws, isConnected, timers>>
    /\ UNCHANGED <<posHist, logGhost, notifGhost>>

(***************************************************************************)
(* Operations on orders.                                                   *)
(***************************************************************************)
\* History: the ids for which a FILLED or CANCELLED update has been applied
\* and that no snapshot has listed since.
ClosedOrders == IF "closed" \in DOMAIN last THEN last.closed ELSE {}

\* The ids still closed once a snapshot loader has left the collection as S.
ClosedAfterSnapshot(S) == {x \in ClosedOrders : \A i \in DOMAIN S : S[i].id # x}

\* handleMessage, case ORDER_UPDATE
OnOrderUpdate ==
    /\ Receiving
    /\ \E d \in OrderPayloads :
        /\ orders' = OrderUpdate(orders, d)
        /\ Record([type |-> "ORDER_UPDATE", data |-> d,
                   closed |-> IF d.status \in TerminalStatuses
                              THEN ClosedOrders \cup {d.id} ELSE ClosedOrders])
    /\ UNCHANGED <<positions, consoleLogs, notifications, systemStatus, accountInfo>>
    /\ UNCHANGED <<connVars, posGhost, logGhost, notifGhost>>

\* refreshOrders is called, through the callback of any render so far: it
\* returns false at once when that render had no API URL, and otherwise issues
\* its request and awaits the response, next to the calls already waiting.
CallRefreshOrders ==
    /\ \E cl \in closures :
        IF cl.apiUrl = ""
        THEN /\ refreshing' = refreshing
             /\ Record([type |-> "callRefreshOrders", returned |-> Some(FALSE),
                        closed |-> ClosedOrders])
        ELSE /\ refreshing' = [refreshing EXCEPT
                                   !.orders = Append(@, [atCall |-> orders, owner |-> cl.owner])]
             /\ Record([type |-> "callRefreshOrders", returned |-> None,
                        closed |-> ClosedOrders])
    /\ UNCHANGED storeVars
    /\ UNCHANGED <<isAuthenticated, apiUrl, wsUrl, fetches, closures, mounted, hookId, sockets,
                   effectSocket, ws, isConnected, timers>>
    /\ UNCHANGED <<posGhost, logGhost, notifGhost>>

\* refreshOrders: the request of one of the waiting calls resolves (or
\* throws) and the callback returns.
RefreshOrders ==
    /\ \E c \in DOMAIN refreshing.orders, r \in Responses(OrderLists) :
        /\ orders' = IF OwnerLive(refreshing.orders[c].owner)
                     THEN RefreshResult(orders, r) ELSE orders
        /\ Record([type |-> "refreshOrders", data |-> r, returned |-> RefreshSucceeds(r),
                   atCall |-> refreshing.orders[c].atCall,
                   closed |-> ClosedAfterSnapshot(
                                  IF OwnerLive(refreshing.orders[c].owner)
                                  THEN RefreshResult(orders, r) ELSE orders)])
        /\ refreshing' = [refreshing EXCEPT !.orders = WithoutIndex(@, c)]
    /\ UNCHANGED <<positions, consoleLogs, notifications, systemStatus, accountInfo>>
    /\ UNCHANGED <<isAuthenticated, apiUrl, wsUrl, fetches, closures, mounted, hookId, sockets,
                   effectSocket, ws, isConnected, timers>>
    /\ UNCHANGED <<posGhost, logGhost, notifGhost>>

\* fetchInitialData: the orders request resolves (or throws); the function returns.
FetchInitialOrders ==
    /\ \E c \in DOMAIN fetches, r \in Responses(OrderLists) :
        /\ fetches[c].pc = "orders"
        /\ orders' = IF OwnerLive(fetches[c].owner)
                     THEN InitialLoadResult(orders, r) ELSE orders
        /\ fetches' = [fetches EXCEPT ![c].pc = IF r.throws THEN "caught" ELSE "done"]
        /\ Record([type |-> "fetchInitialOrders", data |-> r,
                   closed |-> ClosedAfterSnapshot(
                                  IF OwnerLive(fetches[c].owner)
                                  THEN InitialLoadResult(orders, r) ELSE orders)])
    /\ UNCHANGED <<positions, consoleLogs, notifications, systemStatus, accountInfo>>
    /\ UNCHANGED <<isAuthenticated, apiUrl, wsUrl, closures, refreshing, mounted, hookId, sockets,
                   effectSocket, ws, isConnected, timers>>
    /\ UNCHANGED <<posGhost, logGhost, notifGhost>>

\* fetchInitialData: the account request resolves (or throws).
FetchInitialAccount ==
    /\ \E c \in DOMAIN fetches, r \in AccountResponses :
        /\ fetches[c].pc = "account"
        /\ accountInfo' = IF OwnerLive(fetches[c].owner)
                          THEN InitialAccountResult(accountInfo, r) ELSE accountInfo
        /\ fetches' = [fetches EXCEPT ![c].pc = IF r.throws THEN "caught" ELSE "positions"]
        /\ Record([type |-> "fetchInitialAccount", data |-> r, call |-> c])
    /\ UNCHANGED <<positions, orders, consoleLogs, notifications, systemStatus>>
    /\ UNCHANGED <<isAuthenticated, apiUrl, wsUrl, closures, refreshing, mounted, hookId, sockets,
                   effectSocket, ws, isConnected, timers>>
    /\ UNCHANGED <<posGhost, logGhost, notifGhost>>

(***************************************************************************)
(* The console log.                                                        *)
(***************************************************************************)
\* A faulty log reducer: keeps the oldest LogCap entries (appends, then truncates).
LogInsertAtEnd(prev, entry) == Slice0(prev \o <<entry>>, LogCap)

\* A faulty log reducer: never truncates.
LogInsertUncapped(prev, entry) == <<entry>> \o prev

\* setConsoleLogs updater: [entry, ...prev].slice(0, 500)
LogInsert(prev, entry) == Slice0(<<entry>> \o prev, LogCap)

\* The log line TRADE_CONFIRM synthesizes; k stands for `${Date.now()}-${Math.random()}`.
TradeConfirmLog(data, k) ==
    [id |-> <<"trade", k>>, type |-> "success",
     message |-> <<"Trade confirmed: ",
                   IF IsSome(data.epic) /\ data.epic # Some("") THEN data.epic[1] ELSE "Unknown">>,
     epic |-> data.epic]

\* A CONSOLE_LOG payload with sequence marker k.
LogLine(k, t) == [id |-> <<"log", k>>, type |-> t, message |-> <<"line">>, epic |-> None]

\* The log after n CONSOLE_LOG frames with markers 1..n (n <= LogCap), newest first.
LogAfter(n) == [i \in 1..n |-> LogLine(n - i + 1, "info")]

\* The CONSOLE_LOG frames that can arrive: the next marker, or the frame
\* received last once more (at-least-once delivery).
ConsoleLogPayloads ==
    {LogLine(Len(logArrivals) + 1, t) : t \in {"info", "error"}}
    \cup {logArrivals[i] : i \in {j \in DOMAIN logArrivals : j = 1 /\ logArrivals[j].type # "success"}}

TradeConfirmPayloads == [epic : {None, Some(""), Some("X")}]

\* handleMessage, case CONSOLE_LOG
OnConsoleLog ==
    /\ Receiving
    /\ \E d \in ConsoleLogPayloads :
        /\ consoleLogs' = LogInsert(consoleLogs, d)
        /\ logArrivals' = <<d>> \o logArrivals
        /\ Record([type |-> "CONSOLE_LOG", data |-> d])
    /\ UNCHANGED <<positions, orders, notifications, systemStatus, accountInfo>>
    /\ UNCHANGED <<connVars, posGhost, notifGhost>>

\* handleMessage, case TRADE_CONFIRM
OnTradeConfirm ==
    /\ Receiving
    /\ \E d \in TradeConfirmPayloads :
        LET log == TradeConfirmLog(d, Len(logArrivals) + 1)
        IN  /\ consoleLogs' = LogInsert(consoleLogs, log)
            /\ logArrivals' = <<log>> \o logArrivals
            /\ Record([type |-> "TRADE_CONFIRM", data |-> d])
    /\ UNCHANGED <<positions, orders, notifications, systemStatus, accountInfo>>
    /\ UNCHANGED <<connVars, posGhost, notifGhost>>

(***************************************************************************)
(* Notifications.                                                          *)
(***************************************************************************)
\* A faulty notification reducer: truncates one entry too late.
NotificationInsertOffByOne(prev, n) == Slice0(<<n>> \o prev, NotifCap + 1)

\* setNotifications updater of NOTIFICATION: [data, ...prev].slice(0, 50)
NotificationInsert(prev, n) == Slice0(<<n>> \o prev, NotifCap)

\* markNotificationAsRead
MarkRead(prev, id) == [i \in DOMAIN prev |->
                         IF prev[i].id = id THEN [prev[i] EXCEPT !.read = TRUE] ELSE prev[i]]

\* markAllNotificationsAsRead
MarkAllRead(prev) == [i \in DOMAIN prev |-> [prev[i] EXCEPT !.read = TRUE]]

\* A NOTIFICATION payload with sequence marker k.
Notif(k) == [id |-> <<"n", k>>, level |-> "info", title |-> <<"title">>, read |-> FALSE]

\* The list after n NOTIFICATION frames with markers 1..n (n <= NotifCap), newest first.
NotificationsAfter(n) == [i \in 1..n |-> Notif(n - i + 1)]

\* The NOTIFICATION frames that can arrive: the next marker, or the frame
\* received last once more (at-least-once delivery).
NotificationPayloads ==
    {Notif(Len(received) + 1)} \cup {received[i] : i \in {j \in DOMAIN received : j = 1}}

\* The ids the notification panel can pass to a handler: those of the newest
\* and of the oldest entry shown.
ShownIds == {notifications[i].id : i \in {j \in DOMAIN notifications :
                                              j = 1 \/ j = Len(notifications)}}

\* handleMessage, case NOTIFICATION
OnNotification ==
    /\ Receiving
    /\ \E d \in NotificationPayloads :
        /\ notifications' = NotificationInsert(notifications, d)
        /\ received' = <<d>> \o received
        /\ Record([type |-> "NOTIFICATION", data |-> d])
    /\ UNCHANGED <<positions, orders, consoleLogs, systemStatus, accountInfo>>
    /\ UNCHANGED <<connVars, posGhost, logGhost, cleared, nClears>>

\* markNotificationAsRead(id)
MarkNotificationAsRead ==
    /\ \E id \in ShownIds :
        /\ notifications' = MarkRead(notifications, id)
        /\ Record([type |-> "markNotificationAsRead", data |-> id])
    /\ UNCHANGED <<positions, orders, consoleLogs, systemStatus, accountInfo>>
    /\ UNCHANGED <<connVars, posGhost, logGhost, notifGhost>>

\* markAllNotificationsAsRead()
MarkAllNotificationsAsRead ==
    /\ notifications # <<>>
    /\ notifications' = MarkAllRead(notifications)
    /\ Record([type |-> "markAllNotificationsAsRead"])
    /\ UNCHANGED <<positions, orders, consoleLogs, systemStatus, accountInfo>>
    /\ UNCHANGED <<connVars, posGhost, logGhost, notifGhost>>

\* clearNotification(id)
ClearNotification ==
    /\ \E id \in ShownIds :
        /\ notifications' = FilterOutId(notifications, id)
        /\ cleared' = cleared \cup {Len(received) - i + 1 : i \in {j \in DOMAIN received : received[j].id = id}}
        /\ Record([type |-> "clearNotification", data |-> id])
    /\ nClears' = nClears + 1
    /\ UNCHANGED <<positions, orders, consoleLogs, systemStatus, accountInfo>>
    /\ UNCHANGED <<connVars, posGhost, logGhost, received>>

\* clearAllNotifications()
ClearAllNotifications ==
    /\ notifications # <<>>
    /\ notifications' = <<>>
    /\ cleared' = 1..Len(received)
    /\ nClears' = nClears + 1
    /\ Record([type |-> "clearAllNotifications"])
    /\ UNCHANGED <<positions, orders, consoleLogs, systemStatus, accountInfo>>
    /\ UNCHANGED <<connVars, posGhost, logGhost, received>>

(***************************************************************************)
(* System status and account.                                              *)
(***************************************************************************)
\* A faulty status reducer: an update without status or flags resets them.
SystemStatusResetsFlags(prev, d) ==
    [status |-> IF IsSome(d.status) THEN d.status[1] ELSE "STOPPED",
     igConnected |-> IF d.igConnected # None THEN d.igConnected ELSE Some(FALSE),
     lightstreamerConnected |->
         IF d.lightstreamerConnected # None THEN d.lightstreamerConnected ELSE Some(FALSE),
     sessionAge |-> d.sessionAge,
     uptime |-> d.uptime,
     lastUpdateAt |-> d.lastUpdateAt,
     secondsSinceUpdate |-> d.secondsSinceUpdate]

\* setSystemStatus updater of SYSTEM_STATUS: status by `||` (undefined, null
\* and "" keep the previous one), the two flags by `!== undefined` (a null is
\* stored), the monitoring fields as they come.
SystemStatusMerge(prev, d) ==
    [status |-> IF IsSome(d.status) /\ d.status # Some("") THEN d.status[1] ELSE prev.status,
     igConnected |-> IF d.igConnected # None THEN d.igConnected ELSE prev.igConnected,
     lightstreamerConnected |->
         IF d.lightstreamerConnected # None THEN d.lightstreamerConnected
         ELSE prev.lightstreamerConnected,
     sessionAge |-> d.sessionAge,
     uptime |-> d.uptime,
     lastUpdateAt |-> d.lastUpdateAt,
     secondsSinceUpdate |-> d.secondsSinceUpdate]

\* The value ACCOUNT_UPDATE stores.
AccountFromUpdate(d) ==
    [balance |-> OrZero(d.balance), equity |-> OrZero(d.equity), margin |-> OrZero(d.margin),
     available |-> OrZero(d.available), pnl |-> OrZero(d.pnl)]

\* The four monitoring fields of a SYSTEM_STATUS payload: none supplied, all
\* supplied, only secondsSinceUpdate, only sessionAge.
StatusDetails ==
    {[sessionAge |-> None, uptime |-> None, lastUpdateAt |-> None, secondsSinceUpdate |-> None],
     [sessionAge |-> Some("1h"), uptime |-> Some("2h"), lastUpdateAt |-> Some("t1"),
      secondsSinceUpdate |-> Some(7)],
     [sessionAge |-> None, uptime |-> None, lastUpdateAt |-> None, secondsSinceUpdate |-> Some(42)],
     [sessionAge |-> Some("3h"), uptime |-> None, lastUpdateAt |-> None, secondsSinceUpdate |-> None]}

StatusPayloads ==
    {[status |-> st, igConnected |-> ig, lightstreamerConnected |-> ls,
      sessionAge |-> x.sessionAge, uptime |-> x.uptime, lastUpdateAt |-> x.lastUpdateAt,
      secondsSinceUpdate |-> x.secondsSinceUpdate] :
        st \in {None, Some("ACTIVE"), Some("ERROR")},
        ig \in {None, Some(TRUE), Some(FALSE)},
        ls \in {None, Some(TRUE)},
        x \in StatusDetails}
    \cup
    {[status |-> Null, igConnected |-> Null, lightstreamerConnected |-> Null,
      sessionAge |-> Null, uptime |-> None, lastUpdateAt |-> None,
      secondsSinceUpdate |-> None],
     [status |-> Some("ACTIVE"), igConnected |-> Null, lightstreamerConnected |-> Some(TRUE),
      sessionAge |-> None, uptime |-> None, lastUpdateAt |-> Null,
      secondsSinceUpdate |-> Null]}

AccountPayloads ==
    {[balance |-> Some(1000), equity |-> Some(1010), margin |-> Some(50),
      available |-> Some(950), pnl |-> Some(10)],
     [balance |-> Some(1000), equity |-> Some(1000), margin |-> Some(0),
      available |-> Some(1000), pnl |-> None]}

\* handleMessage, case SYSTEM_STATUS
OnSystemStatus ==
    /\ Receiving
    /\ \E d \in StatusPayloads :
        /\ systemStatus' = SystemStatusMerge(systemStatus, d)
        /\ Record([type |-> "SYSTEM_STATUS", data |-> d])
    /\ UNCHANGED <<positions, orders, consoleLogs, notifications, accountInfo>>
    /\ UNCHANGED <<connVars, posGhost, logGhost, notifGhost>>

\* handleMessage, case ACCOUNT_UPDATE
OnAccountUpdate ==
    /\ Receiving
    /\ \E d \in AccountPayloads :
        /\ accountInfo' = AccountFromUpdate(d)
        /\ Record([type |-> "ACCOUNT_UPDATE", data |-> d])
    /\ UNCHANGED <<positions, orders, consoleLogs, notifications, systemStatus>>
    /\ UNCHANGED <<connVars, posGhost, logGhost, notifGhost>>

(***************************************************************************)
(* websocket.onmessage: JSON.parse, then the switch of handleMessage.      *)
(* A frame is what JSON.parse makes of it: whether it parses, and the type *)
(* and data of the message; k stands for the id TRADE_CONFIRM draws.       *)
(***************************************************************************)
MessageTypes == {"CONNECTED", "SYSTEM_STATUS", "ACCOUNT_UPDATE", "POSITION_UPDATE",
                 "ORDER_UPDATE", "TRADE_CONFIRM", "CONSOLE_LOG", "NOTIFICATION",
                 "MARKET_PRICE_UPDATE"}

\* A faulty dispatcher: an ORDER_UPDATE also drops the positions on its epic.
HandleKnownMessageOrderTouchesPositions(S, m, k) ==
    CASE m.type = "CONNECTED" -> S
      [] m.type = "SYSTEM_STATUS" ->
            [S EXCEPT !.systemStatus = SystemStatusMerge(@, m.data)]
      [] m.type = "ACCOUNT_UPDATE" ->
            [S EXCEPT !.accountInfo = AccountFromUpdate(m.data)]
      [] m.type = "POSITION_UPDATE" ->
            [S EXCEPT !.positions = PositionUpdate(@, m.data)]
      [] m.type = "ORDER_UPDATE" ->
            [S EXCEPT !.orders = OrderUpdate(@, m.data),
                      !.positions = SelectSeq(@, LAMBDA p : p.epic # m.data.epic)]
      [] m.type = "TRADE_CONFIRM" ->
            [S EXCEPT !.consoleLogs = LogInsert(@, TradeConfirmLog(m.data, k))]
      [] m.type = "CONSOLE_LOG" ->
            [S EXCEPT !.consoleLogs = LogInsert(@, m.data)]
      [] m.type = "NOTIFICATION" ->
            [S EXCEPT !.notifications = NotificationInsert(@, m.data)]
      [] m.type = "MARKET_PRICE_UPDATE" ->
            [S EXCEPT !.positions = MarketPriceUpdate(@, m.data.epic, m.data.bid, m.data.offer)]

\* handleMessage: the store after the case of a message of a known type.
\* CONNECTED only logs.
HandleKnownMessage(S, m, k) ==
    CASE m.type = "CONNECTED" -> S
      [] m.type = "SYSTEM_STATUS" ->
            [S EXCEPT !.systemStatus = SystemStatusMerge(@, m.data)]
      [] m.type = "ACCOUNT_UPDATE" ->
            [S EXCEPT !.accountInfo = AccountFromUpdate(m.data)]
      [] m.type = "POSITION_UPDATE" ->
            [S EXCEPT !.positions = PositionUpdate(@, m.data)]
      [] m.type = "ORDER_UPDATE" ->
            [S EXCEPT !.orders = OrderUpdate(@, m.data)]
      [] m.type = "TRADE_CONFIRM" ->
            [S EXCEPT !.consoleLogs = LogInsert(@, TradeConfirmLog(m.data, k))]
      [] m.type = "CONSOLE_LOG" ->
            [S EXCEPT !.consoleLogs = LogInsert(@, m.data)]
      [] m.type = "NOTIFICATION" ->
            [S EXCEPT !.notifications = NotificationInsert(@, m.data)]
      [] m.type = "MARKET_PRICE_UPDATE" ->
            [S EXCEPT !.positions = MarketPriceUpdate(@, m.data.epic, m.data.bid, m.data.offer)]

\* A faulty dispatcher: a message of no known case resets the collections.
HandleMessageDefaultResets(S, m, k) ==
    IF m.type \in MessageTypes THEN HandleKnownMessage(S, m, k)
    ELSE [S EXCEPT !.positions = <<>>, !.orders = <<>>]

\* handleMessage: the switch has no default case.
HandleMessage(S, m, k) ==
    IF m.type \in MessageTypes THEN HandleKnownMessage(S, m, k) ELSE S

\* websocket.onmessage: a frame that does not parse is caught and logged.
OnMessageStore(S, f, k) == IF f.parses THEN HandleMessage(S, f, k) ELSE S

\* Frames no case handles: a truncated POSITION_UPDATE (JSON.parse throws),
\* a type outside the set, and a known type in the wrong letter case.
DroppedFrames ==
    {[parses |-> FALSE, type |-> "POSITION_UPDATE", data |-> PosB],
     [parses |-> TRUE, type |-> "PING", data |-> PosB],
     [parses |-> TRUE, type |-> "position_update", data |-> PosB]}

Frame(t, d) == [parses |-> TRUE, type |-> t, data |-> d]

\* onmessage of socket i runs for frame f. The setters handleMessage calls
\* are those of the hook mount that created the socket: React drops their
\* writes once that mount is gone.
Deliver(f, i) ==
    LET live == OwnerLive(sockets[i].owner)
        S2 == IF live THEN OnMessageStore(Store, f, Len(logArrivals) + 1) ELSE Store
        handled == f.parses /\ live
    IN  /\ positions' = S2.positions
        /\ orders' = S2.orders
        /\ consoleLogs' = S2.consoleLogs
        /\ notifications' = S2.notifications
        /\ systemStatus' = S2.systemStatus
        /\ accountInfo' = S2.accountInfo
        /\ posHist' = IF handled /\ f.type = "POSITION_UPDATE"
                      THEN Append(posHist, f.data) ELSE posHist
        /\ posPure' = (posPure /\ ~(handled /\ f.type = "MARKET_PRICE_UPDATE"))
        /\ logArrivals' = IF handled /\ f.type \in {"TRADE_CONFIRM", "CONSOLE_LOG"}
                          THEN <<S2.consoleLogs[1]>> \o logArrivals ELSE logArrivals
        /\ received' = IF handled /\ f.type = "NOTIFICATION"
                       THEN <<f.data>> \o received ELSE received
        /\ Record([type |-> "frame", frame |-> f,
                   afterDropped |-> (last.type = "frame"
                                      /\ (~last.frame.parses
                                          \/ last.frame.type \notin MessageTypes))])
        /\ UNCHANGED <<connVars, cleared, nClears>>

\* websocket.onmessage
OnMessage ==
    \E i \in {j \in DOMAIN sockets : sockets[j].readyState = "OPEN"} :
       \/ \E f \in DroppedFrames : Deliver(f, i)
       \/ Deliver(Frame("CONNECTED", [message |-> "connected"]), i)
       \/ \E d \in {PosA, PosB} : Deliver(Frame("POSITION_UPDATE", d), i)
       \/ \E d \in {OrdA, OrdFilled} : Deliver(Frame("ORDER_UPDATE", d), i)
       \/ \E d \in AccountPayloads : Deliver(Frame("ACCOUNT_UPDATE", d), i)
       \/ \E d \in {x \in StatusPayloads : /\ x.status = Some("ACTIVE")
                                           /\ x.igConnected = Some(TRUE)
                                           /\ x.lightstreamerConnected = None} :
              Deliver(Frame("SYSTEM_STATUS", d), i)
       \/ Deliver(Frame("TRADE_CONFIRM", [epic |-> Some("X")]), i)
       \/ Deliver(Frame("CONSOLE_LOG", LogLine(Len(logArrivals) + 1, "info")), i)
       \/ Deliver(Frame("NOTIFICATION", Notif(Len(received) + 1)), i)
       \/ Deliver(Frame("MARKET_PRICE_UPDATE", [epic |-> "X", bid |-> 101, offer |-> 102]), i)

(***************************************************************************)
(* The connection effect and the auth store.                               *)
(***************************************************************************)
Backends == {"a", "b"}

\* WebSocket.close(): a connecting or open socket starts closing.
CloseSocket(socks, i) ==
    IF i # 0 /\ socks[i].readyState \in {"CONNECTING", "OPEN"}
    THEN [socks EXCEPT ![i].readyState = "CLOSING"]
    ELSE socks

\* The effect's cleanup: websocket.close() on the socket the effect created.
AfterCleanup == CloseSocket(sockets, effectSocket)

\* Whether the effect body passes its guard with the given store values.
EffectConnects(auth, url) == auth /\ url # ""

\* The hook renders (at mount, or when isAuthenticated / wsUrl / apiUrl
\* changed) with the new store values: it returns the refresh callbacks of
\* this render, and the connection effect and the fetchInitialData effect
\* run: the previous cleanup, then the effect bodies.
RunEffects(auth, api, url, hook) ==
    /\ IF EffectConnects(auth, url)
       THEN /\ Len(sockets) < MaxSockets
            /\ sockets' = Append(AfterCleanup,
                                 [url |-> url, readyState |-> "CONNECTING", owner |-> hook])
            /\ effectSocket' = Len(sockets) + 1
            /\ ws' = Len(sockets) + 1
       ELSE /\ sockets' = AfterCleanup
            /\ effectSocket' = 0
            /\ ws' = IF hook = hookId THEN ws ELSE 0
    /\ fetches' = IF auth /\ api # ""
                  THEN Append(fetches, [pc |-> "account", owner |-> hook])
                  ELSE fetches
    /\ closures' = closures \cup {[owner |-> hook, apiUrl |-> api]}

connStoreFrame == UNCHANGED <<storeVars, refreshing, posGhost, logGhost, notifGhost>>

\* useWebSocket is called in the first render of its component: fresh state
\* cells, then the effects.
MountHook ==
    /\ ~mounted
    /\ mounted' = TRUE
    /\ hookId' = hookId + 1
    /\ isConnected' = FALSE
    /\ positions' = <<>>
    /\ orders' = <<>>
    /\ consoleLogs' = <<>>
    /\ notifications' = <<>>
    /\ systemStatus' = InitialSystemStatus
    /\ accountInfo' = InitialAccountInfo
    /\ RunEffects(isAuthenticated, apiUrl, wsUrl, hookId + 1)
    /\ UNCHANGED <<isAuthenticated, apiUrl, wsUrl, refreshing, timers>>
    /\ UNCHANGED <<posGhost, logGhost, notifGhost>>

\* The component calling the hook mounts.
Mount == MountHook /\ Record([type |-> "mount"])

\* The component unmounts: the effect's cleanup runs.
Unmount ==
    /\ mounted
    /\ mounted' = FALSE
    /\ sockets' = AfterCleanup
    /\ effectSocket' = 0
    /\ Record([type |-> "unmount"])
    /\ UNCHANGED <<isAuthenticated, apiUrl, wsUrl, fetches, closures, hookId, ws, isConnected,
                   timers>>
    /\ connStoreFrame

\* authStore.login succeeds: the store takes the backend's URLs. With the
\* hook mounted its effects run again when a dependency changed.
Login ==
    /\ \E b \in Backends :
        /\ ~(isAuthenticated /\ wsUrl = WsUrlOf(b))
        /\ isAuthenticated' = TRUE
        /\ apiUrl' = ApiUrlOf(b)
        /\ wsUrl' = WsUrlOf(b)
        /\ IF mounted
           THEN RunEffects(TRUE, ApiUrlOf(b), WsUrlOf(b), hookId)
           ELSE UNCHANGED <<sockets, effectSocket, ws, fetches, closures>>
        /\ Record([type |-> IF isAuthenticated THEN "urlChange" ELSE "login", data |-> b])
    /\ UNCHANGED <<mounted, hookId, isConnected, timers>>
    /\ connStoreFrame

\* authStore.logout: the session ends; the effect's cleanup runs and the
\* effect body returns at its guard.
Logout ==
    /\ isAuthenticated
    /\ isAuthenticated' = FALSE
    /\ apiUrl' = ""
    /\ wsUrl' = ""
    /\ IF mounted
       THEN RunEffects(FALSE, "", "", hookId)
       ELSE UNCHANGED <<sockets, effectSocket, ws, fetches, closures>>
    /\ Record([type |-> "logout"])
    /\ UNCHANGED <<mounted, hookId, isConnected, timers>>
    /\ connStoreFrame

\* App renders for the first time. With a session rehydrated from storage
\* it goes past `if (!isAuthenticated) return <LoginPage />` and calls
\* useWebSocket, whose hook mounts; without one it returns the login page
\* and useWebSocket is not called.
AppFirstRender ==
    /\ app = "unrendered"
    /\ IF isAuthenticated
       THEN /\ MountHook
            /\ app' = "main"
            /\ Note([type |-> "mount"])
       ELSE /\ app' = "login"
            /\ Note([type |-> "render"])
            /\ UNCHANGED <<storeVars, connVars, posGhost, logGhost, notifGhost>>

\* authStore.login succeeds from the login page. App renders again, now past
\* its early return, and calls useWebSocket: more hooks than in the render
\* before, which React refuses; it fails the render and unmounts App. The
\* hook is never mounted.
AppLogin ==
    /\ app = "login"
    /\ \E b \in Backends :
        /\ isAuthenticated' = TRUE
        /\ apiUrl' = ApiUrlOf(b)
        /\ wsUrl' = WsUrlOf(b)
        /\ Note([type |-> "login", data |-> b])
    /\ app' = "failed"
    /\ UNCHANGED <<fetches, closures, mounted, hookId, sockets, effectSocket, ws, isConnected,
                   timers>>
    /\ connStoreFrame

\* authStore.logout under App: the session ends and App's render returns the
\* login page before the call of useWebSocket: fewer hooks than in the render
\* before, which React refuses; it fails the render, unmounts App and throws
\* the error again. The hook is unmounted; the cleanup of its effect has not
\* run yet and the connection is as it was, with its handlers attached.
AppLogout ==
    /\ app = "main"
    /\ isAuthenticated
    /\ mounted
    /\ isAuthenticated' = FALSE
    /\ apiUrl' = ""
    /\ wsUrl' = ""
    /\ mounted' = FALSE
    /\ app' = "failed"
    /\ Note([type |-> "appLogout", data |-> effectSocket])
    /\ UNCHANGED <<fetches, closures, hookId, sockets, effectSocket, ws, isConnected, timers>>
    /\ connStoreFrame

\* The cleanup of the connection effect of the unmounted hook, which React
\* runs in a task of its own after the one of the logout: websocket.close().
\* It is owed once per unmount and is not counted in the bound of the run.
EffectCleanup ==
    /\ app = "failed"
    /\ ~mounted
    /\ effectSocket # 0
    /\ sockets' = AfterCleanup
    /\ effectSocket' = 0
    /\ last' = [type |-> "cleanup", data |-> effectSocket]
    /\ pre' = Store
    /\ UNCHANGED <<isAuthenticated, apiUrl, wsUrl, fetches, closures, mounted, hookId, ws,
                   isConnected, timers>>
    /\ UNCHANGED <<app, budget, planner, planned, devBuild>>
    /\ connStoreFrame

\* websocket.onopen
SocketOpen ==
    /\ \E i \in DOMAIN sockets :
        /\ sockets[i].readyState = "CONNECTING"
        /\ sockets' = [sockets EXCEPT ![i].readyState = "OPEN"]
        /\ isConnected' = IF OwnerLive(sockets[i].owner) THEN TRUE ELSE isConnected
        /\ Record([type |-> "open", data |-> i])
    /\ UNCHANGED <<isAuthenticated, apiUrl, wsUrl, fetches, closures, mounted, hookId, effectSocket,
                   ws, timers>>
    /\ connStoreFrame

\* websocket.onclose: the transport closed, or the close() of a cleanup completed.
SocketClose ==
    /\ \E i \in DOMAIN sockets :
        /\ sockets[i].readyState \in {"CONNECTING", "OPEN", "CLOSING"}
        /\ sockets' = [sockets EXCEPT ![i].readyState = "CLOSED"]
        /\ isConnected' = IF OwnerLive(sockets[i].owner) THEN FALSE ELSE isConnected
        /\ timers' = Append(timers, sockets[i].owner)
        /\ Record([type |-> "close", data |-> i])
    /\ UNCHANGED <<isAuthenticated, apiUrl, wsUrl, fetches, closures, mounted, hookId,
                   effectSocket, ws>>
    /\ connStoreFrame

\* websocket.onerror: logs only.
SocketError ==
    /\ \E i \in DOMAIN sockets :
        /\ sockets[i].readyState \in {"CONNECTING", "OPEN", "CLOSING"}
        /\ Record([type |-> "error", data |-> i])
    /\ UNCHANGED connVars
    /\ connStoreFrame

\* The callback of the oldest pending setTimeout runs: setWs(null). The
\* effect does not depend on ws, so nothing else follows.
ReconnectTimerFires ==
    /\ timers # <<>>
    /\ timers' = Tail(timers)
    /\ ws' = IF OwnerLive(Head(timers)) THEN 0 ELSE ws
    /\ Record([type |-> "timer", data |-> Head(timers)])
    /\ UNCHANGED <<isAuthenticated, apiUrl, wsUrl, fetches, closures, mounted, hookId, sockets,
                   effectSocket, isConnected>>
    /\ connStoreFrame

\* The hook before its first mount; the auth store as created, or as
\* rehydrated from a persisted session.
InitHook ==
    /\ devBuild \in BOOLEAN
    /\ app = "unrendered"
    /\ \E persisted \in BOOLEAN :
        /\ isAuthenticated = persisted
        /\ apiUrl = IF persisted THEN ApiUrlOf("a") ELSE ""
        /\ wsUrl = IF persisted THEN WsUrlOf("a") ELSE ""
    /\ fetches = <<>>
    /\ closures = {}
    /\ refreshing = NoRefresh
    /\ mounted = FALSE
    /\ hookId = 0
    /\ sockets = <<>>
    /\ effectSocket = 0
    /\ ws = 0
    /\ isConnected = FALSE
    /\ timers = <<>>

(***************************************************************************)
(* Specifications of the position and order collections.                   *)
(***************************************************************************)
InitPositions == InitStore(<<>>, <<>>, MaxPosEvents) /\ InitConnected("positions")

NextPositions ==
    \/ OnPositionUpdate
    \/ OnMarketPriceUpdate
    \/ CallRefreshPositions
    \/ RefreshPositions
    \/ FetchInitialPositions

SpecPositions == InitPositions /\ [][NextPositions]_vars

InitOrders == InitStore(<<>>, <<>>, MaxOrderEvents) /\ InitConnected("orders")

NextOrders ==
    \/ OnOrderUpdate
    \/ CallRefreshOrders
    \/ RefreshOrders
    \/ FetchInitialOrders

SpecOrders == InitOrders /\ [][NextOrders]_vars

(***************************************************************************)
(* Specification of the snapshot loaders: fetchInitialData from its first  *)
(* request, explicit refreshes, and the channel updates that race them.    *)
(***************************************************************************)
InitSnapshots == InitStore(<<>>, <<>>, MaxSnapEvents) /\ InitConnected("account")

NextSnapshots ==
    \/ FetchInitialAccount
    \/ FetchInitialPositions
    \/ FetchInitialOrders
    \/ CallRefreshPositions
    \/ RefreshPositions
    \/ CallRefreshOrders
    \/ RefreshOrders
    \/ OnPositionUpdate
    \/ OnOrderUpdate

SpecSnapshots == InitSnapshots /\ [][NextSnapshots]_vars

(***************************************************************************)
(* Specifications of the console log and of the notifications. The runs    *)
(* start with the empty collection, or with the collection as it is after  *)
(* two frames fewer than its capacity, so that a few more frames reach it. *)
(***************************************************************************)
InitLogs ==
    /\ \E n \in {0, LogCap - 2} : InitStore(LogAfter(n), <<>>, MaxLogEvents)
    /\ InitConnected("done")

NextLogs ==
    \/ OnConsoleLog
    \/ OnTradeConfirm

SpecLogs == InitLogs /\ [][NextLogs]_vars

InitNotifications ==
    /\ \E n \in {0, NotifCap - 1} : InitStore(<<>>, NotificationsAfter(n), MaxNotifEvents)
    /\ InitConnected("done")

NextNotifications ==
    \/ OnNotification
    \/ MarkNotificationAsRead
    \/ MarkAllNotificationsAsRead
    \/ ClearNotification
    \/ ClearAllNotifications

SpecNotifications == InitNotifications /\ [][NextNotifications]_vars

(***************************************************************************)
(* Specification of the status and account singletons.                     *)
(***************************************************************************)
InitStatus == InitStore(<<>>, <<>>, MaxStatusEvents) /\ InitConnected("done")

NextStatus ==
    \/ OnSystemStatus
    \/ OnAccountUpdate

SpecStatus == InitStatus /\ [][NextStatus]_vars

(***************************************************************************)
(* Specification of the connection lifecycle.                              *)
(***************************************************************************)
InitConn == InitStore(<<>>, <<>>, MaxConnEvents) /\ InitHook

NextConn ==
    \/ Mount
    \/ Unmount
    \/ Login
    \/ Logout
    \/ SocketOpen
    \/ SocketClose
    \/ SocketError
    \/ ReconnectTimerFires

SpecConn == InitConn /\ [][NextConn]_vars

(***************************************************************************)
(* Specification of the channel's frames: onmessage for frames of every    *)
(* kind, the closure of the channel and the timer it schedules.            *)
(***************************************************************************)
InitFrames == InitStore(<<>>, <<>>, MaxFrameEvents) /\ InitConnected("done")

NextFrames ==
    \/ OnMessage
    \/ SocketClose
    \/ ReconnectTimerFires

SpecFrames == InitFrames /\ [][NextFrames]_vars

(***************************************************************************)
(* Specification of the planner.                                           *)
(***************************************************************************)
InitPlanner == InitStore(<<>>, <<>>, 0) /\ InitConnected("done")

NextPlanner ==
    \/ PlanCall
    \/ PlanLoop

SpecPlanner == InitPlanner /\ [][NextPlanner]_vars

\* The planner called with arguments outside its domain.
NextPlannerDegenerate ==
    \/ PlanCallDegenerate
    \/ PlanLoop

SpecPlannerDegenerate == InitPlanner /\ [][NextPlannerDegenerate]_vars

\* The planner called time after time.
NextPlannerRepeated ==
    \/ PlanCallAgain
    \/ PlanLoop

SpecPlannerRepeated == InitPlanner /\ [][NextPlannerRepeated]_vars

(***************************************************************************)
(* Specification of a session without teardown: the hook mounts, the       *)
(* session's backend may change, the channel opens and closes, and         *)
(* fetchInitialData goes through its requests.                             *)
(***************************************************************************)
InitSession == InitStore(<<>>, <<>>, MaxSessionEvents) /\ InitHook

NextSession ==
    \/ Mount
    \/ Login
    \/ SocketOpen
    \/ SocketClose
    \/ ReconnectTimerFires
    \/ FetchInitialAccount
    \/ FetchInitialPositions
    \/ FetchInitialOrders

SpecSession == InitSession /\ [][NextSession]_vars

(***************************************************************************)
(* Specification of the session's teardown under App: the hook is mounted  *)
(* by App's first render of a stored session, the channel opens, delivers  *)
(* frames and closes, snapshots are loaded and refreshed, and the logout   *)
(* unmounts the hook while requests, socket events and timers are pending; *)
(* the cleanup of the connection effect runs in a later task, and socket   *)
(* events, responses and timers can come between the two.                  *)
(***************************************************************************)
InitTeardown == InitStore(<<>>, <<>>, MaxTeardownEvents) /\ InitHook

NextTeardown ==
    \/ AppFirstRender
    \/ AppLogin
    \/ AppLogout
    \/ EffectCleanup
    \/ SocketOpen
    \/ SocketClose
    \/ SocketError
    \/ ReconnectTimerFires
    \/ OnMessage
    \/ FetchInitialAccount
    \/ FetchInitialPositions
    \/ FetchInitialOrders
    \/ CallRefreshPositions
    \/ RefreshPositions
    \/ CallRefreshOrders
    \/ RefreshOrders

\* React has scheduled the cleanup when it unmounted the hook, and the
\* scheduler runs it.
SpecTeardown == InitTeardown /\ [][NextTeardown]_vars /\ WF_effectSocket(EffectCleanup)

(***************************************************************************)
(* Properties of the position collection.                                  *)
(***************************************************************************)
\* C1: POSITION_UPDATE is idempotent: in every reachable position collection,
\* for every payload, applying the update twice in a row gives exactly the
\* collection that applying it once gives (same entries, order and fields).
C1_PositionUpdateIdempotent ==
    \A d \in PositionPayloads :
        LET once == PositionUpdate(positions, d)
            twice == PositionUpdate(once, d)
        IN  /\ twice = once
            /\ Len(twice) = Len(once)
            /\ \A i \in DOMAIN once : twice[i] = once[i]

\* A POSITION_UPDATE has just been applied to a collection of two positions
\* that already held its payload: the second application of the same update.
C1_Witness ==
    /\ last.type = "POSITION_UPDATE"
    /\ Len(pre.positions) = 2
    /\ \E i \in DOMAIN pre.positions : pre.positions[i] = last.data
    /\ positions = pre.positions

\* The ids of a history of payloads, and where each was first and last seen.
IdsOf(h) == {h[i].id : i \in DOMAIN h}
FirstSeen(h, id) == CHOOSE i \in DOMAIN h :
                        h[i].id = id /\ \A j \in DOMAIN h : h[j].id = id => i <= j
LastSeen(h, id) == CHOOSE i \in DOMAIN h :
                       h[i].id = id /\ \A j \in DOMAIN h : h[j].id = id => j <= i

\* C2: upsert by id: from the empty collection, after any sequence of
\* POSITION_UPDATE events the collection holds exactly one entry per distinct
\* id seen, the entry is the payload of the last update for that id, and the
\* entries stand in the order in which their ids were first seen (replace in
\* place, append when new).
C2_UpsertById ==
    posPure =>
        /\ {positions[i].id : i \in DOMAIN positions} = IdsOf(posHist)
        /\ Len(positions) = Cardinality(IdsOf(posHist))
        /\ \A i \in DOMAIN positions :
               positions[i] = posHist[LastSeen(posHist, positions[i].id)]
        /\ \A i, j \in DOMAIN positions :
               i < j => FirstSeen(posHist, positions[i].id) < FirstSeen(posHist, positions[j].id)

\* P1 with contracts 2, another id, then P1 with contracts 3: one entry for P1,
\* replaced in place with contracts 3, before the entry appended for the other id.
C2_Witness ==
    /\ posPure
    /\ Len(posHist) = 3
    /\ posHist[1].id = "P1" /\ posHist[1].contracts = 2
    /\ posHist[2].id = "P2"
    /\ posHist[3].id = "P1" /\ posHist[3].contracts = 3
    /\ Len(positions) = 2
    /\ positions[1].id = "P1" /\ positions[1].contracts = 3

\* C7: price-update isolation: a MARKET_PRICE_UPDATE for instrument X leaves
\* every position of another epic unchanged, changes no pnl, changes no field
\* other than currentPrice, and neither adds, removes nor reorders positions.
C7_PriceUpdateIsolation ==
    last.type = "MARKET_PRICE_UPDATE" =>
        /\ Len(positions) = Len(pre.positions)
        /\ \A i \in DOMAIN positions :
            LET old == pre.positions[i]
                new == positions[i]
            IN  /\ new.id = old.id
                /\ new.pnl = old.pnl
                /\ [new EXCEPT !.currentPrice = old.currentPrice] = old
                /\ old.epic # last.data.epic => new = old

\* A price update has just changed the price of one position and left a
\* position of another epic in the same collection alone.
C7_Witness ==
    /\ last.type = "MARKET_PRICE_UPDATE"
    /\ \E i \in DOMAIN positions : positions[i].currentPrice # pre.positions[i].currentPrice
    /\ \E j \in DOMAIN positions : pre.positions[j].epic # last.data.epic

(***************************************************************************)
(* Properties of the order collection.                                     *)
(***************************************************************************)
\* s with every entry of the given id left out, entry by entry.
RECURSIVE WithoutId(_, _)
WithoutId(s, id) ==
    IF s = <<>> THEN <<>>
    ELSE IF Head(s).id = id THEN WithoutId(Tail(s), id)
    ELSE <<Head(s)>> \o WithoutId(Tail(s), id)

HasId(s, id) == \E i \in DOMAIN s : s[i].id = id

\* C3: terminal removal: an ORDER_UPDATE with status FILLED or CANCELLED
\* removes the entry with that id and leaves every other entry unchanged (the
\* collection is unchanged when no entry has the id); one with status PENDING
\* replaces the entry with that id in place, or is appended when the id is new.
C3_TerminalRemoval ==
    last.type = "ORDER_UPDATE" =>
        LET d == last.data
            old == pre.orders
        IN  /\ d.status \in TerminalStatuses =>
                /\ ~HasId(orders, d.id)
                /\ orders = WithoutId(old, d.id)
                /\ ~HasId(old, d.id) => orders = old
            /\ d.status = "PENDING" =>
                /\ HasId(old, d.id) =>
                    /\ Len(orders) = Len(old)
                    /\ \E k \in DOMAIN old :
                        /\ old[k].id = d.id
                        /\ orders[k] = d
                        /\ \A i \in DOMAIN old : i # k => orders[i] = old[i]
                /\ ~HasId(old, d.id) => orders = old \o <<d>>

\* A FILLED update has just removed one of two pending orders.
C3_Witness ==
    /\ last.type = "ORDER_UPDATE"
    /\ last.data.status = "FILLED"
    /\ Len(pre.orders) = 2
    /\ HasId(pre.orders, last.data.id)
    /\ Len(orders) = 1

\* C4: in every reachable state the order collection holds no entry whose
\* status is FILLED or CANCELLED.
C4_NoTerminalOrder ==
    \A i \in DOMAIN orders : orders[i].status \notin TerminalStatuses

(***************************************************************************)
(* Properties of the console log and of the notifications.                 *)
(***************************************************************************)
\* C5: the log never holds more than 500 entries and is newest-first: the
\* entry at the front is the one applied last, the log is the most recent
\* min(500, n) of the n lines inserted, in reverse arrival order, and once 501
\* lines have been inserted the oldest one is absent.
C5_LogBoundedNewestFirst ==
    /\ Len(consoleLogs) <= LogCap
    /\ Len(consoleLogs) = IF Len(logArrivals) < LogCap THEN Len(logArrivals) ELSE LogCap
    /\ \A i \in DOMAIN consoleLogs : consoleLogs[i] = logArrivals[i]
    /\ last.type = "CONSOLE_LOG" => consoleLogs[1] = last.data
    /\ last.type = "TRADE_CONFIRM" =>
           consoleLogs[1].type = "success" /\ consoleLogs[1].epic = last.data.epic
    /\ Len(logArrivals) > LogCap =>
           \A i \in DOMAIN consoleLogs : consoleLogs[i].id # logArrivals[Len(logArrivals)].id

\* The 501st line has just been inserted: 500 remain and the first is gone.
C5_Witness ==
    /\ Len(logArrivals) = LogCap + 1
    /\ Len(consoleLogs) = LogCap
    /\ last.type \in {"CONSOLE_LOG", "TRADE_CONFIRM"}
    /\ consoleLogs[LogCap].id = <<"log", 2>>

\* The payloads of a notification list, read flags as received.
AsReceived(s) == [i \in DOMAIN s |-> [s[i] EXCEPT !.read = FALSE]]

\* The received notifications that were not cleared, newest first.
Uncleared == SelectSeq([i \in DOMAIN received |->
                            [n |-> received[i], k |-> Len(received) - i + 1]],
                       LAMBDA x : x.k \notin cleared)

UnclearedReceived == [i \in DOMAIN Uncleared |-> Uncleared[i].n]

\* s is t with some entries left out.
RECURSIVE IsSubsequence(_, _)
IsSubsequence(s, t) ==
    IF s = <<>> THEN TRUE
    ELSE IF t = <<>> THEN FALSE
    ELSE IF Head(s) = Head(t) THEN IsSubsequence(Tail(s), Tail(t))
    ELSE IsSubsequence(s, Tail(t))

\* C6 as stated: the collection never holds more than 50 entries and is always
\* the at-most-50 most recently received notifications that were not
\* explicitly cleared, newest first.
C6_MostRecentUncleared ==
    /\ Len(notifications) <= NotifCap
    /\ AsReceived(notifications) = Slice0(UnclearedReceived, NotifCap)

\* C6 amended: the collection never holds more than 50 entries; a NOTIFICATION
\* inserts its payload at the front and drops what lies beyond 50 from the
\* end; the collection is always a newest-first subsequence of the received
\* notifications that were not cleared, and it is exactly the at-most-50 most
\* recently received ones as long as nothing has been cleared.
C6_NotificationsBounded ==
    /\ Len(notifications) <= NotifCap
    /\ last.type = "NOTIFICATION" =>
        /\ notifications[1] = last.data
        /\ Len(notifications) =
              IF Len(pre.notifications) < NotifCap THEN Len(pre.notifications) + 1 ELSE NotifCap
        /\ \A i \in 2..Len(notifications) : notifications[i] = pre.notifications[i - 1]
    /\ IsSubsequence(AsReceived(notifications), UnclearedReceived)
    /\ nClears = 0 => AsReceived(notifications) = Slice0(AsReceived(received), NotifCap)

\* 51 notifications were received, the oldest was evicted at capacity, and one
\* of the 50 shown was then cleared: 49 are shown.
C6_Witness ==
    /\ Len(received) = NotifCap + 1
    /\ nClears = 1
    /\ last.type = "clearNotification"
    /\ Len(notifications) = NotifCap - 1

(***************************************************************************)
(* Properties of the status singleton.                                     *)
(***************************************************************************)
\* C8: a SYSTEM_STATUS update that does not supply status, igConnected or
\* lightstreamerConnected leaves that field at its previous value, and a
\* supplied secondsSinceUpdate becomes the stored value.
C8_StatusMergeKeepsCoreFlags ==
    last.type = "SYSTEM_STATUS" =>
        LET d == last.data
            old == pre.systemStatus
        IN  /\ d.status = None => systemStatus.status = old.status
            /\ d.igConnected = None => systemStatus.igConnected = old.igConnected
            /\ d.lightstreamerConnected = None =>
                   systemStatus.lightstreamerConnected = old.lightstreamerConnected
            /\ d.secondsSinceUpdate # None =>
                   systemStatus.secondsSinceUpdate = d.secondsSinceUpdate

\* The status was ACTIVE with igConnected, and an update carrying only
\* secondsSinceUpdate 42 has just been applied.
C8_Witness ==
    /\ last.type = "SYSTEM_STATUS"
    /\ pre.systemStatus.status = "ACTIVE"
    /\ pre.systemStatus.igConnected = Some(TRUE)
    /\ last.data.status = None
    /\ last.data.igConnected = None
    /\ last.data.lightstreamerConnected = None
    /\ last.data.sessionAge = None
    /\ last.data.secondsSinceUpdate = Some(42)
    /\ systemStatus.status = "ACTIVE"
    /\ systemStatus.igConnected = Some(TRUE)
    /\ systemStatus.secondsSinceUpdate = Some(42)

\* The stored value of a field after a field-wise partial merge.
Merged(supplied, previous, stored) ==
    IF supplied = None THEN stored = previous ELSE stored = supplied

\* C9: the status update is a field-wise partial merge for every field: a
\* field the update does not supply keeps its stored value, a supplied one is
\* overwritten.
C9_StatusPartialMergeAllFields ==
    last.type = "SYSTEM_STATUS" =>
        LET d == last.data
            old == pre.systemStatus
            new == systemStatus
        IN  /\ Merged(d.status, Some(old.status), Some(new.status))
            /\ Merged(d.igConnected, old.igConnected, new.igConnected)
            /\ Merged(d.lightstreamerConnected, old.lightstreamerConnected,
                      new.lightstreamerConnected)
            /\ Merged(d.sessionAge, old.sessionAge, new.sessionAge)
            /\ Merged(d.uptime, old.uptime, new.uptime)
            /\ Merged(d.lastUpdateAt, old.lastUpdateAt, new.lastUpdateAt)
            /\ Merged(d.secondsSinceUpdate, old.secondsSinceUpdate, new.secondsSinceUpdate)

(***************************************************************************)
(* Properties of the connection lifecycle.                                 *)
(***************************************************************************)
ActiveSockets == {i \in DOMAIN sockets : sockets[i].readyState \in {"CONNECTING", "OPEN"}}

\* C10: single live connection: at most one channel connection is active
\* (connecting or open) at a time, and at most one reconnection attempt is
\* pending at a time.
C10_SingleLiveConnection ==
    /\ Cardinality(ActiveSockets) <= 1
    /\ Len(timers) <= 1

\* The half of C10 the code keeps: never two active connections.
AtMostOneActiveConnection == Cardinality(ActiveSockets) <= 1

\* C11: self-healing reconnection: every closure of the channel during an
\* authenticated session schedules a reconnection, and once the callback of
\* that reconnection has run for the mounted hook of a still authenticated
\* session, a new channel connection exists (connecting or open).
C11_SelfHealingReconnection ==
    /\ (last.type = "close" /\ isAuthenticated) => timers # <<>>
    /\ (last.type = "timer" /\ OwnerLive(last.data) /\ isAuthenticated /\ wsUrl # "")
           => ActiveSockets # {}

\* The half of C11 the code keeps: every closure schedules the callback.
EveryCloseSchedulesTimer == (last.type = "close") => timers # <<>>

\* C12: teardown cancels the reconnection timer: a pending reconnection timer
\* belongs to the mounted hook of an authenticated session (none is pending
\* after logout or after the hook's cleanup), and a callback only ever runs
\* for such a session.
C12_TeardownCancelsTimer ==
    /\ \A i \in DOMAIN timers : OwnerLive(timers[i]) /\ isAuthenticated
    /\ (last.type = "timer") => (OwnerLive(last.data) /\ isAuthenticated)

(***************************************************************************)
(* Properties of the snapshot loaders.                                     *)
(***************************************************************************)
\* The socket of the live effect instance is open.
ChannelConnected == effectSocket # 0 /\ sockets[effectSocket].readyState = "OPEN"

\* C13: every gap is paired with a snapshot: whenever a step creates a channel
\* connection, fetchInitialData starts with it (its account request is
\* issued), and the pull of a connected channel is a full one: it is not cut
\* short before the positions and the orders requests were issued.
C13_ConnectPairedWithSnapshot ==
    /\ (last.type \in {"mount", "login", "urlChange"} /\ effectSocket # 0)
           => fetchPc = "account"
    /\ ChannelConnected => fetchPc # "caught"

\* The half of C13 the code keeps: the pull starts with every connection created.
PullStartsWithConnection ==
    (last.type \in {"mount", "login", "urlChange"} /\ effectSocket # 0) => fetchPc = "account"

\* A snapshot response that succeeded with a list / that failed: transport
\* error, non-OK response, success false, or a payload that is not a list.
SucceededWithList(r) == ~r.throws /\ r.ok /\ r.success /\ r.data.isArray
SnapshotFailed(r) == r.throws \/ ~r.ok \/ ~r.success \/ ~r.data.isArray

\* C14: explicit refresh is a destructive replace that always wins: when
\* refreshPositions (resp. refreshOrders) resolves with a successful list, the
\* collection is exactly that list (the empty one included), whatever the
\* channel wrote since the request was issued, and the call returns true.
C14_RefreshReplaces ==
    /\ (last.type = "refreshPositions" /\ SucceededWithList(last.data))
           => (positions = last.data.data.items /\ last.returned = TRUE)
    /\ (last.type = "refreshOrders" /\ SucceededWithList(last.data))
           => (orders = last.data.data.items /\ last.returned = TRUE)

\* A refresh answered with the empty list after the channel changed the
\* collection between the call and the response.
C14_Witness ==
    /\ last.type = "refreshPositions"
    /\ SucceededWithList(last.data)
    /\ last.data.data.items = <<>>
    /\ pre.positions # <<>>
    /\ last.atCall # pre.positions
    /\ positions = <<>>
    /\ last.returned = TRUE

\* C15: the session-start load replaces wholesale: when the positions
\* (resp. orders) request of fetchInitialData succeeds with a list, the
\* collection is exactly that list, the empty one included; when the account
\* request succeeds, the account holds the values of the response.
C15_InitialLoadReplaces ==
    /\ (last.type = "fetchInitialPositions" /\ SucceededWithList(last.data))
           => positions = last.data.data.items
    /\ (last.type = "fetchInitialOrders" /\ SucceededWithList(last.data))
           => orders = last.data.data.items
    /\ (last.type = "fetchInitialAccount" /\ ~last.data.throws /\ last.data.ok
            /\ last.data.success /\ last.data.data # None)
           => accountInfo = AccountFromSnapshot(last.data.data[1])

\* The part of C15 the code keeps: a non-empty list replaces the collection.
NonEmptyInitialLoadReplaces ==
    /\ (last.type = "fetchInitialPositions" /\ SucceededWithList(last.data)
            /\ last.data.data.items # <<>>)
           => positions = last.data.data.items
    /\ (last.type = "fetchInitialOrders" /\ SucceededWithList(last.data)
            /\ last.data.data.items # <<>>)
           => orders = last.data.data.items

\* C16: a failed snapshot leaves the state untouched: after a snapshot request
\* that failed (of fetchInitialData or of a refresh) the whole store is as it
\* was before, and a failed refresh returns false.
C16_FailedSnapshotKeepsState ==
    /\ (last.type \in {"refreshPositions", "refreshOrders"} /\ SnapshotFailed(last.data))
           => (Store = pre /\ last.returned = FALSE)
    /\ (last.type \in {"fetchInitialPositions", "fetchInitialOrders"}
            /\ SnapshotFailed(last.data))
           => Store = pre
    /\ (last.type = "fetchInitialAccount"
            /\ (last.data.throws \/ ~last.data.ok \/ ~last.data.success))
           => Store = pre

\* The part of C16 the code keeps: a failed refresh changes nothing and returns false.
FailedRefreshKeepsState ==
    (last.type \in {"refreshPositions", "refreshOrders"} /\ SnapshotFailed(last.data))
        => (Store = pre /\ last.returned = FALSE)

(***************************************************************************)
(* Properties of onmessage.                                                *)
(***************************************************************************)
\* A frame that does not parse, or whose type is outside the closed set.
BadFrame(f) == ~f.parses \/ f.type \notin MessageTypes

\* C17: bad frames are dropped without side effects: a step that delivers a
\* frame that does not parse, or that declares a type outside the closed set,
\* changes no collection and no singleton, leaves every socket, the connected
\* flag and the pending timers as they were, and the channel can still
\* receive afterwards.
C17_BadFramesDropped ==
    [][(last'.type = "frame" /\ BadFrame(last'.frame))
          => (/\ UNCHANGED storeVars
              /\ UNCHANGED <<sockets, isConnected, timers, ws, effectSocket>>
              /\ Receiving')]_vars

\* A valid POSITION_UPDATE frame processed right after a dropped frame, which
\* itself left a non-empty store as it was.
C17_Witness ==
    /\ last.type = "frame"
    /\ last.afterDropped
    /\ last.frame.type = "POSITION_UPDATE" /\ last.frame.parses
    /\ pre.positions # <<>>
    /\ positions = PositionUpdate(pre.positions, last.frame.data)
    /\ positions # pre.positions
    /\ isConnected

(***************************************************************************)
(* Properties of the planner.                                              *)
(***************************************************************************)
RECURSIVE SumSeq(_)
SumSeq(q) == IF q = <<>> THEN 0 ELSE Head(q) + SumSeq(Tail(q))

\* plan(1, 10, 2, 0.5) and the sequence expected of it, in hundredths.
ReferenceArgs ==
    [contracts |-> 100, tpPoints |-> 10, orderDistanceDivisor |-> 2, harvestPct |-> 50]
ReferencePlan == <<30, 10, 10, 10, 10, 10, 10, 10>>

\* C18: reference result and determinism: every call with (1, 10, 2, 0.5)
\* returns exactly [0.3, 0.1, 0.1, 0.1, 0.1, 0.1, 0.1, 0.1] (8 steps of sum
\* 1.0), and any two calls with the same arguments, whatever was called
\* between them, have returned the same sequence.
C18_ReferencePlanDeterministic ==
    /\ \A i, j \in DOMAIN planned :
           planned[i].args = planned[j].args => planned[i].falci = planned[j].falci
    /\ \A i \in DOMAIN planned :
           planned[i].args = ReferenceArgs =>
               /\ planned[i].falci = ReferencePlan
               /\ Len(planned[i].falci) = 8
               /\ SumSeq(planned[i].falci) = 100

\* The call with the reference arguments has returned twice, with a call
\* with other arguments between the two.
C18_Witness ==
    /\ Len(planned) = 3
    /\ planned[1].args = ReferenceArgs
    /\ planned[2].args # ReferenceArgs
    /\ planned[2].falci # ReferencePlan
    /\ planned[3].args = ReferenceArgs
    /\ planned[3].falci = ReferencePlan

\* C19: mass conservation: the steps of a returned plan sum to totalContracts
\* within 0.1, also when the step cap is hit and when minimum steps of 0.1
\* are forced.
C19_MassConservation ==
    planner.pc = "returned" =>
        LET diff == SumSeq(planner.falci) - planner.args.contracts
        IN  diff <= MinStep /\ -diff <= MinStep

\* A returned plan that hit the step cap with contracts remaining, all of its
\* steps before the remainder being forced minimum steps.
C19_Witness ==
    /\ planner.pc = "returned"
    /\ planner.n > StepCap
    /\ Len(planner.falci) = StepCap + 1
    /\ \A i \in 1..StepCap : planner.falci[i] = MinStep
    /\ RoundedStep(Reinv(planner.args), Loss(planner.args, planner.args.contracts, 1),
                   planner.args.contracts) = 0
    /\ planner.falci[StepCap + 1] > MinStep
    /\ SumSeq(planner.falci) = planner.args.contracts

\* C20: step cap and termination: the loop makes a bounded number of passes,
\* the sequence never holds more than 20 steps, and when the cap is reached
\* with contracts remaining the remainder is the final step.
C20_StepCapAndTermination ==
    /\ planner.n <= StepCap + 1
    /\ Len(planner.falci) <= StepCap
    /\ (planner.pc = "returned" /\ planner.n > StepCap /\ planner.ct > 0)
           => planner.falci[Len(planner.falci)] = RoundTenth(planner.ct)

\* The part of C20 the code keeps: at most 20 passes add a step, so the loop
\* ends, with at most the remainder after the 20 steps.
PlanEndsWithinCap ==
    /\ planner.n <= StepCap + 1
    /\ Len(planner.falci) <= StepCap + 1
    /\ Len(planner.falci) > StepCap
           => (planner.pc = "returned" /\ planner.falci[StepCap + 1] = RoundTenth(planner.ct))

\* C21: planner input failure: a call with non-positive contracts, or with
\* tpPoints, orderDistanceDivisor or harvestPct of 0, returns the empty
\* sequence.
C21_DegenerateInputsGiveEmptyPlan ==
    (planner.pc = "returned" /\ planner.args \in DegenerateInputs) => planner.falci = <<>>

\* The part of C21 the code keeps: without contracts the plan is empty.
NoContractsGiveEmptyPlan ==
    (planner.pc = "returned" /\ planner.args.contracts <= 0) => planner.falci = <<>>

(***************************************************************************)
(* Properties of the ids.                                                  *)
(***************************************************************************)
UniqueIds(s) == \A i, j \in DOMAIN s : s[i].id = s[j].id => i = j

\* C22: ids are unique within each collection in every reachable state: no
\* two positions, no two orders, no two notifications and no two log lines
\* share an id, frames delivered twice included.
C22_IdsUnique ==
    /\ UniqueIds(positions)
    /\ UniqueIds(orders)
    /\ UniqueIds(notifications)
    /\ UniqueIds(consoleLogs)

\* The part of C22 the code keeps: the upserts of POSITION_UPDATE and
\* ORDER_UPDATE never duplicate an id.
UpsertedIdsUnique == UniqueIds(positions) /\ UniqueIds(orders)

(***************************************************************************)
(* Properties of the price side.                                           *)
(***************************************************************************)
\* The quote side of the event for a position: bid for LONG, offer for SHORT.
ExitSide(pos, data) == IF pos.direction = "LONG" THEN data.bid ELSE data.offer

\* C23: price side selection: after a MARKET_PRICE_UPDATE for an instrument,
\* every position of that instrument shows the bid when LONG and the offer
\* when SHORT, whatever the quote sides and the open price are.
C23_PriceSideSelection ==
    last.type = "MARKET_PRICE_UPDATE" =>
        \A i \in DOMAIN positions :
            positions[i].epic = last.data.epic
                => positions[i].currentPrice = Some(ExitSide(positions[i], last.data))

\* The part of C23 the code keeps: the side is selected by direction when the
\* quote side and the open price are both non-zero.
PriceSideSelectedWhenTruthy ==
    last.type = "MARKET_PRICE_UPDATE" =>
        \A i \in DOMAIN positions :
            (/\ positions[i].epic = last.data.epic
             /\ ExitSide(positions[i], last.data) # 0
             /\ positions[i].openPrice # 0)
                => positions[i].currentPrice = Some(ExitSide(positions[i], last.data))

(***************************************************************************)
(* Properties of the planner's steps.                                      *)
(***************************************************************************)
\* The step rule for remaining contracts r at step n, stated on the
\* quantities themselves: reinvestable = contracts * tpPoints * harvestPct and
\* lossBand = (tpPoints * n + tpPoints / divisor) * r, in the units in which
\* 100 * reinvestable / lossBand is reinvestable / lossBand below; a floor is
\* the integer just below.
StepFollowsRule(a, r, n, step, remainingAfter) ==
    LET reinvestable == a.contracts * a.tpPoints * a.harvestPct * a.orderDistanceDivisor
        lossBand == (a.tpPoints * n * a.orderDistanceDivisor + a.tpPoints) * r
    IN  IF reinvestable < 100 * lossBand
        THEN \E pct \in 0..99, tenths \in 0..(r \div 10) :
                /\ pct * lossBand <= reinvestable
                /\ reinvestable < (pct + 1) * lossBand
                /\ tenths * 1000 <= r * pct
                /\ r * pct < (tenths + 1) * 1000
                /\ step = IF tenths = 0 THEN 10 ELSE 10 * tenths
        ELSE /\ step % 10 = 0
             /\ step - r <= 5 /\ r - step < 5
             /\ remainingAfter = 0

\* C24: planner step rule: every pass of the loop with remaining contracts r
\* above 0.05 emits, as its step n, floor(r * floor(reinvestable * 100 /
\* lossBand) / 100 * 10) / 10 (or 0.1 when that is zero) while reinvestable is
\* below lossBand, and otherwise all of r rounded to one decimal, after which
\* nothing remains and no further step follows; a pass with r at most 0.05
\* emits nothing and returns.
C24_StepRule ==
    [][planner.pc = "loop" =>
          IF planner.ct > LoopThreshold
          THEN /\ Len(planner'.falci) > Len(planner.falci)
               /\ SubSeq(planner'.falci, 1, Len(planner.falci)) = planner.falci
               /\ StepFollowsRule(planner.args, planner.ct, planner.n,
                                  planner'.falci[Len(planner.falci) + 1], planner'.ct)
          ELSE planner'.falci = planner.falci /\ planner'.pc = "returned"]_vars

\* The elements a pass of the loop appends to the plan.
Emitted == SubSeq(planner'.falci, Len(planner.falci) + 1, Len(planner'.falci))

\* Every emitted step is at least 0.1 and a whole multiple of 0.1, and a pass
\* that enters the loop body leaves strictly less, and never a negative
\* quantity, remaining.
StepsAreTenthsAndProgress ==
    [][planner.pc = "loop" =>
          /\ \A i \in 1..Len(Emitted) : Emitted[i] >= MinStep /\ Emitted[i] % MinStep = 0
          /\ planner.ct > LoopThreshold => planner'.ct < planner.ct
          /\ planner'.ct >= 0]_vars

\* C25: planner forward progress: every emitted step is at least 0.1 and a
\* whole multiple of 0.1, the remaining contract count strictly decreases at
\* every loop iteration and never becomes negative, and no step exceeds the
\* contracts remaining before it.
C25_ForwardProgress ==
    [][planner.pc = "loop" =>
          /\ \A i \in 1..Len(Emitted) : Emitted[i] >= MinStep /\ Emitted[i] % MinStep = 0
          /\ planner.ct > LoopThreshold => planner'.ct < planner.ct
          /\ planner'.ct >= 0
          /\ Len(Emitted) > 0 => Emitted[1] <= planner.ct]_vars

(***************************************************************************)
(* Properties of the trade confirmation.                                   *)
(***************************************************************************)
\* C26: a TRADE_CONFIRM inserts exactly one new log line at the front of the
\* log: the log is the new "success" line for the confirmed epic followed by
\* the log as it was, cut to 500 entries; account, positions, orders, status
\* flags and notifications are unchanged.
C26_TradeConfirmOnlyLogs ==
    last.type = "TRADE_CONFIRM" =>
        /\ Len(consoleLogs) = IF Len(pre.consoleLogs) < LogCap
                              THEN Len(pre.consoleLogs) + 1 ELSE LogCap
        /\ consoleLogs[1].type = "success"
        /\ consoleLogs[1].epic = last.data.epic
        /\ \A i \in 1..Len(pre.consoleLogs) : consoleLogs[1].id # pre.consoleLogs[i].id
        /\ \A i \in 2..Len(consoleLogs) : consoleLogs[i] = pre.consoleLogs[i - 1]
        /\ positions = pre.positions
        /\ orders = pre.orders
        /\ notifications = pre.notifications
        /\ systemStatus = pre.systemStatus
        /\ accountInfo = pre.accountInfo

\* A TRADE_CONFIRM was applied to a full log.
C26_Witness ==
    /\ last.type = "TRADE_CONFIRM"
    /\ Len(pre.consoleLogs) = LogCap
    /\ consoleLogs[1].id[1] = "trade"
    /\ consoleLogs[2] = pre.consoleLogs[1]

(***************************************************************************)
(* Properties of stale order updates.                                      *)
(***************************************************************************)
\* C27: once a FILLED or CANCELLED ORDER_UPDATE has been applied for an id,
\* the id stays absent from the order collection under every later
\* ORDER_UPDATE for it, a duplicated or an older PENDING one included, until a
\* snapshot lists it again.
C27_TerminalOrderStaysRemoved ==
    last.type = "ORDER_UPDATE" =>
        \A i \in DOMAIN orders : orders[i].id \notin last.closed

\* A redelivered FILLED or CANCELLED update for a closed id leaves it absent.
DuplicateTerminalKeepsRemoved ==
    (last.type = "ORDER_UPDATE" /\ last.data.status \in TerminalStatuses) =>
        \A i \in DOMAIN orders : orders[i].id # last.data.id

(***************************************************************************)
(* Properties of the connected flag.                                       *)
(***************************************************************************)
\* The connection created last is open.
CurrentOpen == sockets # <<>> /\ sockets[Len(sockets)].readyState = "OPEN"

\* C28: while the hook is mounted, the connected flag is true only if the most
\* recently created connection is open, and the close event of a superseded
\* connection never leaves the flag false while the current connection is open.
C28_ConnectedFlagTracksCurrent ==
    mounted =>
        /\ isConnected => CurrentOpen
        /\ (last.type = "close" /\ last.data # Len(sockets) /\ CurrentOpen) => isConnected

\* While the hook is mounted, the flag is true only if some connection the
\* mount created has opened and its close event has not been handled.
ConnectedOnlyWithUnclosedSocket ==
    (mounted /\ isConnected) =>
        \E i \in DOMAIN sockets :
            sockets[i].owner = hookId /\ sockets[i].readyState \in {"OPEN", "CLOSING"}

(***************************************************************************)
(* Properties of the teardown.                                             *)
(***************************************************************************)
\* Every connection is closing or closed, never connecting or open.
AllSocketsClosed == \A i \in DOMAIN sockets : sockets[i].readyState \in {"CLOSING", "CLOSED"}

Writes(t) ==
    CASE t = "SYSTEM_STATUS" -> {"systemStatus"}
      [] t = "ACCOUNT_UPDATE" -> {"accountInfo"}
      [] t \in {"POSITION_UPDATE", "MARKET_PRICE_UPDATE"} -> {"positions"}
      [] t = "ORDER_UPDATE" -> {"orders"}
      [] t \in {"CONSOLE_LOG", "TRADE_CONFIRM"} -> {"consoleLogs"}
      [] t = "NOTIFICATION" -> {"notifications"}
      [] OTHER -> {}

\* C30: each channel event writes only its own collection (SYSTEM_STATUS the
\* status, ACCOUNT_UPDATE the account, POSITION_UPDATE and
\* MARKET_PRICE_UPDATE the positions, ORDER_UPDATE the orders, CONSOLE_LOG the
\* log, NOTIFICATION the notifications, CONNECTED nothing) and leaves every
\* other collection unchanged, and no channel event removes a position.
C30_EventWritesOwnCollection ==
    last.type = "frame" =>
        /\ \A c \in DOMAIN Store :
              c \notin (IF last.frame.parses THEN Writes(last.frame.type) ELSE {})
                  => Store[c] = pre[c]
        /\ \A i \in DOMAIN pre.positions :
              \E j \in DOMAIN positions : positions[j].id = pre.positions[i].id

\* An ORDER_UPDATE has changed the orders while positions were held.
C30_Witness ==
    /\ last.type = "frame"
    /\ last.frame.parses
    /\ last.frame.type = "ORDER_UPDATE"
    /\ orders # pre.orders
    /\ pre.positions # <<>>
    /\ positions = pre.positions

====
